---- MODULE Spec2Model ----
(***************************************************************************)
(* Quote routing engine: QuoteService (cache + retry loop),                *)
(* AggregatorService / CrossChainRouter (provider pool rounds and          *)
(* best-quote selection) and SmartRouter.getOptimalQuote.                  *)
(*                                                                         *)
(* Time is in milliseconds.  An amount string is a decimal integer in the  *)
(* token's smallest unit; it is written [hi, lo] for hi * 2^53 + lo with   *)
(* |lo| far below 2^53, so that amounts of 18-decimals tokens, which       *)
(* exceed the 53-bit mantissa of a JavaScript number, can be represented.  *)
(* The strings of a request (token addresses, the amount typed by the      *)
(* user, the request key) are sequences of character codes.                *)
(***************************************************************************)
EXTENDS Integers, Sequences, FiniteSets, TLC

\* ---------------------------------------------------------------- constants
CACHE_DURATION == 30000
MAX_RETRIES == 3
RETRY_DELAY == 1000
CACHE_CAPACITY == 100
DEX_QUOTE_VALIDITY == 30000
BRIDGE_QUOTE_VALIDITY == 30000
DEX_TIMEOUT == 10000
BRIDGE_TIMEOUT == 15000
NumAggregators == 3
NumBridges == 3

\* ------------------------------------------------------------------- bounds
MaxTime == 35000
Calls == {1}

\* The clock is observed every 5 s: two events are 0 or more such steps apart.
TickSteps == {5000}

\* Time an upstream takes to answer, when it answers before the timeout.
Latencies == {0}

\* ------------------------------------------------------------ JS numbers
Amt(h, l) == [hi |-> h, lo |-> l]

\* Round-to-nearest-even of the offset above 2^53, where doubles are 2 apart.
RoundOffset(l) ==
  CASE l % 4 = 1 -> l - 1
    [] l % 4 = 3 -> l + 1
    [] OTHER -> l

\* The IEEE-754 double nearest to the integer hi * 2^53 + lo.
ToDouble(x) ==
  CASE x.hi = 1 /\ x.lo >= 0 -> Amt(1, RoundOffset(x.lo))
    [] x.hi = -1 /\ x.lo <= 0 -> Amt(-1, 0 - RoundOffset(0 - x.lo))
    [] OTHER -> x

parseFloat(s) == ToDouble(s)

FloatSub(a, b) == ToDouble(Amt(a.hi - b.hi, a.lo - b.lo))

FloatGt(a, b) == a.hi > b.hi \/ (a.hi = b.hi /\ a.lo > b.lo)

\* ------------------------------------------------------------- selection
RECURSIVE ReduceDex(_, _, _)
ReduceDex(qs, i, best) ==
  IF i > Len(qs) THEN best
  ELSE ReduceDex(qs, i + 1,
         IF FloatGt(parseFloat(qs[i].toAmount), parseFloat(best.toAmount))
         THEN qs[i] ELSE best)

\* quotes.reduce(...) of AggregatorService.getBestQuote, quotes non-empty
BestDexQuote(qs) == ReduceDex(qs, 2, qs[1])

NetAmount(q) == FloatSub(parseFloat(q.toAmount), parseFloat(q.gasEstimate))

RECURSIVE ReduceBridge(_, _, _)
ReduceBridge(qs, i, best) ==
  IF i > Len(qs) THEN best
  ELSE ReduceBridge(qs, i + 1,
         IF FloatGt(NetAmount(qs[i]), NetAmount(best)) THEN qs[i] ELSE best)

\* quotes.reduce(...) of CrossChainRouter.getCrossChainQuote, quotes non-empty
BestBridgeQuote(qs) == ReduceBridge(qs, 2, qs[1])

\* ------------------------------------------------------- provider clients
\* What an upstream can answer with a success status.
Responses ==
  { [toAmount |-> Amt(0, 100), gasEstimate |-> Amt(0, 5)],
    [toAmount |-> Amt(0, 105), gasEstimate |-> Amt(0, 20)] }

Outcomes ==
  { [kind |-> "ok", resp |-> r] : r \in Responses }
    \cup { [kind |-> "timeout"], [kind |-> "status"] }

\* a quote that takes no validity window
transformQuoteResponseNoWindow(data, t) ==
  [ pool |-> "dex", toAmount |-> data.toAmount,
    gasEstimate |-> data.gasEstimate, validUntil |-> t ]

\* a quote valid for twice as long
transformQuoteResponseLongWindow(data, t) ==
  [ pool |-> "dex", toAmount |-> data.toAmount,
    gasEstimate |-> data.gasEstimate,
    validUntil |-> t + 2 * DEX_QUOTE_VALIDITY ]

transformQuoteResponse(data, t) ==
  [ pool |-> "dex", toAmount |-> data.toAmount,
    gasEstimate |-> data.gasEstimate, validUntil |-> t + DEX_QUOTE_VALIDITY ]

transformBridgeQuote(data, t) ==
  [ pool |-> "bridge", toAmount |-> data.toAmount,
    gasEstimate |-> data.gasEstimate, validUntil |-> t + BRIDGE_QUOTE_VALIDITY ]

\* ---------------------------------------------------------------- strings
\* A string is the sequence of its character codes: "1.5" is <<49, 46, 53>>.
IsDigit(ch) == 48 <= ch /\ ch <= 57

\* Number.prototype.toString of a non-negative integer
RECURSIVE NatString(_)
NatString(n) ==
  IF n < 10 THEN <<48 + n>> ELSE NatString(n \div 10) \o <<48 + (n % 10)>>

\* Number.prototype.toString of an integer
IntString(n) == IF n < 0 THEN <<45>> \o NatString(0 - n) ELSE NatString(n)

\* Number.prototype.toString of a percentage held in hundredths of a percent
\* (50 is 0.5, 6000 is 60): the shortest decimal numeral.
PercentString(p) ==
  IF p % 100 = 0 THEN NatString(p \div 100)
  ELSE IF p % 10 = 0 THEN NatString(p \div 100) \o <<46, 48 + ((p % 100) \div 10)>>
  ELSE NatString(p \div 100) \o <<46, 48 + ((p % 100) \div 10), 48 + (p % 10)>>

\* String.prototype.split('.')
RECURSIVE SplitDot(_)
SplitDot(s) ==
  IF \A i \in 1..Len(s) : s[i] # 46 THEN <<s>>
  ELSE LET d == CHOOSE i \in 1..Len(s) :
                  s[i] = 46 /\ \A j \in 1..(i - 1) : s[j] # 46
       IN <<SubSeq(s, 1, d - 1)>> \o SplitDot(SubSeq(s, d + 1, Len(s)))

\* String.prototype.padStart(n, ch), padEnd(n, ch) and slice(0, n)
padStart(s, n, ch) ==
  IF Len(s) >= n THEN s ELSE [i \in 1..(n - Len(s)) |-> ch] \o s
padEnd(s, n, ch) ==
  IF Len(s) >= n THEN s ELSE s \o [i \in 1..(n - Len(s)) |-> ch]
sliceTo(s, n) == IF Len(s) <= n THEN s ELSE SubSeq(s, 1, n)

\* ------------------------------------------------- amount normalization
\* the fraction padded on the left
convertToWeiPadStart(amount, decimals) ==
  LET parts == SplitDot(amount)
      integerPart == parts[1]
      decimalString == IF Len(parts) >= 2 THEN parts[2] ELSE <<>>
      paddedDecimal == sliceTo(padStart(decimalString, decimals, 48), decimals)
  IN integerPart \o paddedDecimal

\* QuoteService.convertToWei
convertToWei(amount, decimals) ==
  LET parts == SplitDot(amount)
      integerPart == parts[1]
      decimalString == IF Len(parts) >= 2 THEN parts[2] ELSE <<>>
      paddedDecimal == sliceTo(padEnd(decimalString, decimals, 48), decimals)
  IN integerPart \o paddedDecimal

\* BigInt(s) of a string, as the canonical decimal numeral of the value:
\* leading zeros dropped, the empty string is 0; a string that is no decimal
\* integer is a SyntaxError.
RECURSIVE StripZeros(_)
StripZeros(s) ==
  IF Len(s) > 1 /\ s[1] = 48 THEN StripZeros(Tail(s)) ELSE s

BigInt(s) ==
  IF \E i \in 1..Len(s) : ~IsDigit(s[i]) THEN [ok |-> FALSE]
  ELSE IF s = <<>> THEN [ok |-> TRUE, value |-> <<48>>]
  ELSE [ok |-> TRUE, value |-> StripZeros(s)]

\* utils.parseUnits
parseUnits(value, decimals) ==
  LET parts == SplitDot(value)
      integer == parts[1]
      fraction == IF Len(parts) >= 2 THEN parts[2] ELSE <<>>
      paddedFraction == sliceTo(padEnd(fraction, decimals, 48), decimals)
      n == BigInt(integer \o paddedFraction)
  IN IF n.ok THEN n.value ELSE <<48>>

\* ------------------------------------------------------ request fingerprint
\* hash = ((hash << 5) - hash) + char; hash = hash & hash: 31 * hash + char
\* reduced to 32 bits.  The 32 bits are kept as two 16-bit halves.
HashStep(h, ch) ==
  LET lo == 31 * h.lo + ch
      hi == 31 * h.hi + (lo \div 65536)
  IN [hi |-> hi % 65536, lo |-> lo % 65536]

RECURSIVE HashLoop(_, _)
HashLoop(h, s) == IF s = <<>> THEN h ELSE HashLoop(HashStep(h, Head(s)), Tail(s))

\* the 32 bits read as a signed integer
ToInt32(h) ==
  IF h.hi >= 32768 THEN (h.hi - 65536) * 65536 + h.lo ELSE h.hi * 65536 + h.lo

\* QuoteService.hashString
hashString(str) == IntString(ToInt32(HashLoop([hi |-> 0, lo |-> 0], str)))

\* QuoteService.generateRequestHash
generateRequestHash(request) ==
  hashString(request.fromToken.address \o <<45>> \o request.toToken.address
               \o <<45>> \o request.amount
               \o <<45>> \o NatString(request.fromChainId)
               \o <<45>> \o NatString(request.toChainId)
               \o <<45>> \o PercentString(request.slippage))

\* ------------------------------------------------------------- form data
\* Tokens: the addresses are "0xAa", "0xaa", "0xBB", "0xCd" and "0xcd".
TokenAa == [address |-> <<48, 120, 65, 97>>, decimals |-> 6]
TokenAaLower == [address |-> <<48, 120, 97, 97>>, decimals |-> 6]
TokenBB == [address |-> <<48, 120, 66, 66>>, decimals |-> 6]
TokenCd == [address |-> <<48, 120, 67, 100>>, decimals |-> 6]
TokenCdLower == [address |-> <<48, 120, 99, 100>>, decimals |-> 6]

\* complete: fromToken, toToken, fromChain and toChain are all non-null.
\* The amounts are "" and "1.5"; slippageTolerance is in hundredths of a
\* percent.
FormDatas ==
  [ complete : BOOLEAN, fromToken : {TokenAa}, toToken : {TokenCd},
    amount : {<<>>, <<49, 46, 53>>}, fromChain : {1}, toChain : {1, 2},
    slippageTolerance : {50} ]

\* Requests a form can hold that a validator would turn down, next to a
\* sound one: equal tokens, the amounts "0", "-1" and "abc", the slippage
\* tolerances 0 and 60.
SoundForm ==
  [ complete |-> TRUE, fromToken |-> TokenAa, toToken |-> TokenCd,
    amount |-> <<49, 46, 53>>, fromChain |-> 1, toChain |-> 1,
    slippageTolerance |-> 50 ]

UncheckedForms ==
  { SoundForm,
    [SoundForm EXCEPT !.toToken = TokenAa],
    [SoundForm EXCEPT !.amount = <<48>>],
    [SoundForm EXCEPT !.amount = <<45, 49>>],
    [SoundForm EXCEPT !.amount = <<97, 98, 99>>],
    [SoundForm EXCEPT !.slippageTolerance = 0],
    [SoundForm EXCEPT !.slippageTolerance = 6000] }

\* const request: QuoteRequest = { ... }
QuoteRequest(f) ==
  [ fromToken |-> f.fromToken, toToken |-> f.toToken,
    amount |-> convertToWei(f.amount, f.fromToken.decimals),
    fromChainId |-> f.fromChain, toChainId |-> f.toChain,
    slippage |-> f.slippageTolerance ]

\* const requestHash = this.generateRequestHash(request)
\* The fingerprints of the requests above, each computed once.
FormHashes ==
  { <<f, generateRequestHash(QuoteRequest(f))>> :
      f \in FormDatas \cup UncheckedForms }

requestHash(f) ==
  IF f \in FormDatas \cup UncheckedForms
  THEN (CHOOSE p \in FormHashes : p[1] = f)[2]
  ELSE generateRequestHash(QuoteRequest(f))

Hashes == { requestHash(f) : f \in FormDatas \cup UncheckedForms }

NoForm == CHOOSE f \in FormDatas : TRUE

\* ------------------------------------------------------------------ cache
NoEntry == [type |-> "none"]

CacheSize(m) == Cardinality({ h \in DOMAIN m : m[h] # NoEntry })

Stale(e, t) == t - e.timestamp > CACHE_DURATION \/ e.quote.validUntil < t

\* getCachedQuote with the age comparison turned around
getCachedQuoteFlipped(m, h, t) ==
  IF m[h] = NoEntry THEN [hit |-> FALSE, cache |-> m]
  ELSE IF t - m[h].timestamp < CACHE_DURATION
       THEN [hit |-> FALSE, cache |-> [m EXCEPT ![h] = NoEntry]]
  ELSE IF m[h].quote.validUntil < t
       THEN [hit |-> FALSE, cache |-> [m EXCEPT ![h] = NoEntry]]
  ELSE [hit |-> TRUE, quote |-> m[h].quote, cache |-> m]

\* a read that sweeps every stale entry out of the cache
getCachedQuoteSweeping(m, h, t) ==
  LET swept == [k \in DOMAIN m |->
                  IF m[k] # NoEntry /\ Stale(m[k], t) THEN NoEntry ELSE m[k]]
  IN IF m[h] = NoEntry \/ Stale(m[h], t)
     THEN [hit |-> FALSE, cache |-> swept]
     ELSE [hit |-> TRUE, quote |-> m[h].quote, cache |-> swept]

\* getCachedQuote: the value returned (hit, quote) and the cache afterwards
getCachedQuote(m, h, t) ==
  IF m[h] = NoEntry THEN [hit |-> FALSE, cache |-> m]
  ELSE IF t - m[h].timestamp > CACHE_DURATION
       THEN [hit |-> FALSE, cache |-> [m EXCEPT ![h] = NoEntry]]
  ELSE IF m[h].quote.validUntil < t
       THEN [hit |-> FALSE, cache |-> [m EXCEPT ![h] = NoEntry]]
  ELSE [hit |-> TRUE, quote |-> m[h].quote, cache |-> m]

\* a sweep that empties the cache
cleanupCacheAll(m, t) == [ h \in DOMAIN m |-> NoEntry ]

cleanupCache(m, t) ==
  [ h \in DOMAIN m |-> IF m[h] # NoEntry /\ Stale(m[h], t) THEN NoEntry ELSE m[h] ]

\* cacheQuote stamping the entry with the quote's validUntil
cacheQuoteWrongStamp(m, h, q, t) ==
  LET set == [m EXCEPT ![h] = [type |-> "entry", quote |-> q,
                               timestamp |-> q.validUntil]]
  IN IF CacheSize(set) > CACHE_CAPACITY THEN cleanupCache(set, t) ELSE set

\* cacheQuote that leaves an entry already present in place
cacheQuoteKeepFirst(m, h, q, t) ==
  LET set == IF m[h] # NoEntry THEN m
             ELSE [m EXCEPT ![h] = [type |-> "entry", quote |-> q, timestamp |-> t]]
  IN IF CacheSize(set) > CACHE_CAPACITY THEN cleanupCache(set, t) ELSE set

cacheQuote(m, h, q, t) ==
  LET set == [m EXCEPT ![h] = [type |-> "entry", quote |-> q, timestamp |-> t]]
  IN IF CacheSize(set) > CACHE_CAPACITY THEN cleanupCache(set, t) ELSE set

\* QuoteService.getCacheStats at time t; the entries in no particular order
getCacheStats(m, t) ==
  [ size |-> CacheSize(m),
    entries |-> { [ hash |-> h, age |-> t - m[h].timestamp,
                    valid |-> m[h].quote.validUntil > t ] :
                  h \in { k \in DOMAIN m : m[k] # NoEntry } } ]

\* ------------------------------------------------------------------ state
VARIABLES
  now,         \* Date.now()
  cache,       \* QuoteService.cache
  pc,          \* where each call is suspended
  form,        \* the formData of each call
  attempt,     \* loop variable of the retry loop
  idx,         \* index of the provider whose call is in flight
  startedAt,   \* when that provider call was issued
  wakeAt,      \* when the pending backoff timer fires
  quotes,      \* the quotes array of the running pool round
  lastError,   \* lastError of the retry loop
  result,      \* what the call returned or threw
  dexOut,      \* outcome of each DEX provider call of the latest DEX round
  bridgeOut,   \* outcome of each bridge call of the cross-chain round
  delays,      \* backoff delays taken by the call, in order
  dexCalls,    \* DEX provider calls issued by the call
  bridgeCalls, \* bridge provider calls issued by the call
  fromCache    \* the call was answered from the cache

\* The application around the engine: the swap form, the API-key service
\* and the request middleware.
VARIABLES
  formData,        \* SwapForm: formData
  timeout,         \* debounce: the pending timer, its time and arguments
  debounced,       \* calls of the debounced function so far
  invoked,         \* calls of func so far
  fetching,        \* SwapForm: fetchQuote bodies waiting for their quote
  displayedQuote,  \* SwapForm: quote
  isLoadingQuote,  \* SwapForm: isLoadingQuote
  isSwapping,      \* SwapForm: isSwapping
  swapStatus,      \* SwapForm: swapStatus
  error,           \* SwapForm: error
  swapping,        \* SwapForm: handleSwap waiting for its transaction
  resetTimers,     \* SwapForm: pending status-reset timers
  apiKeys,         \* ApiAuthService.apiKeys
  rateLimits,      \* ApiAuthService.rateLimits
  authResult,      \* what the latest authenticate call returned
  rateLimitStore,  \* middleware: rateLimitStore
  response         \* the latest response of the middleware

formVars == << formData, timeout, debounced, invoked, fetching,
               displayedQuote, isLoadingQuote, isSwapping, swapStatus, error,
               swapping, resetTimers >>

authVars == << apiKeys, rateLimits, authResult >>

gateVars == << rateLimitStore, response >>

appVars == << formVars, authVars, gateVars >>

vars == << now, cache, pc, form, attempt, idx, startedAt, wakeAt, quotes,
           lastError, result, dexOut, bridgeOut, delays, dexCalls,
           bridgeCalls, fromCache, appVars >>

None == [type |-> "none"]
Returned(q) == [type |-> "quote", quote |-> q]
Thrown(e) == [type |-> "error", error |-> e]

InvalidParams == [msg |-> "Invalid swap parameters", round |-> 0]
AllDexFailed(n) ==
  [msg |-> "All DEX aggregators failed to provide quotes", round |-> n]

\* ----------------------------------------- the application, as constructed
\* SwapForm's initial formData: both tokens chosen, the amount ''
InitialFormData ==
  [fromToken |-> TokenAa, toToken |-> TokenCd, amount |-> <<>>]

\* SwapForm as created by its first render, before its effects have run
FormAtRest ==
  /\ formData = InitialFormData
  /\ timeout = None
  /\ debounced = <<>>
  /\ invoked = <<>>
  /\ fetching = {}
  /\ displayedQuote = None
  /\ isLoadingQuote = FALSE
  /\ isSwapping = FALSE
  /\ swapStatus = "idle"
  /\ error = None
  /\ swapping = None
  /\ resetTimers = {}

\* initializeTestKeys: rateLimit 60 for the basic key, 300 for the premium one
BASIC_RATE_LIMIT == 60
PREMIUM_RATE_LIMIT == 300

ApiKey(limit, t) == [rateLimit |-> limit, lastUsed |-> t, isActive |-> TRUE]

TestKeys == {"test_basic_key_123", "test_premium_key_456"}

\* ApiAuthService as constructed at time 0
AuthAtRest ==
  /\ apiKeys = [k \in TestKeys |->
                  IF k = "test_basic_key_123" THEN ApiKey(BASIC_RATE_LIMIT, 0)
                  ELSE ApiKey(PREMIUM_RATE_LIMIT, 0)]
  /\ rateLimits = [k \in TestKeys |-> None]
  /\ authResult = None

\* the client identifiers seen by the middleware
Clients == {"10.0.0.1-curl", "10.0.0.2-curl"}

\* const rateLimitStore = new Map()
GateAtRest ==
  /\ rateLimitStore = [id \in Clients |-> None]
  /\ response = None

AppAtRest == FormAtRest /\ AuthAtRest /\ GateAtRest

Init ==
  /\ now = 0
  /\ cache = [h \in Hashes |-> NoEntry]
  /\ pc = [c \in Calls |-> "idle"]
  /\ form = [c \in Calls |-> NoForm]
  /\ attempt = [c \in Calls |-> 0]
  /\ idx = [c \in Calls |-> 0]
  /\ startedAt = [c \in Calls |-> 0]
  /\ wakeAt = [c \in Calls |-> 0]
  /\ quotes = [c \in Calls |-> <<>>]
  /\ lastError = [c \in Calls |-> None]
  /\ result = [c \in Calls |-> None]
  /\ dexOut = [c \in Calls |-> <<>>]
  /\ bridgeOut = [c \in Calls |-> <<>>]
  /\ delays = [c \in Calls |-> <<>>]
  /\ dexCalls = [c \in Calls |-> 0]
  /\ bridgeCalls = [c \in Calls |-> 0]
  /\ fromCache = [c \in Calls |-> FALSE]
  /\ AppAtRest

\* ------------------------------------------------- QuoteService.getQuote
Put(v, c, x) == [v EXCEPT ![c] = x]

\* What a provider call came to: its kind and, for a success, its quote.
Settled(o, q) ==
  IF o.kind = "ok" THEN [kind |-> "ok", quote |-> q] ELSE [kind |-> o.kind]

\* rounds with x added to the running (last) round
AddOutcome(rounds, x) == [rounds EXCEPT ![Len(rounds)] = Append(@, x)]

\* getQuote from its entry to its first suspension: parameter check, cache
\* lookup, hit-return or first iteration of the retry loop up to the fetch
\* of the first aggregator.
getQuote(c, f) ==
  LET h == requestHash(f)
      cached == getCachedQuote(cache, h, now)
  IN
  /\ delays' = Put(delays, c, <<>>)
  /\ quotes' = Put(quotes, c, <<>>)
  /\ lastError' = Put(lastError, c, None)
  /\ IF ~f.complete \/ f.amount = <<>>
     THEN /\ pc' = Put(pc, c, "done")
          /\ dexOut' = Put(dexOut, c, <<>>)
          /\ result' = Put(result, c, Thrown(InvalidParams))
          /\ fromCache' = Put(fromCache, c, FALSE)
          /\ UNCHANGED appVars
          /\ attempt' = Put(attempt, c, 0)
          /\ idx' = Put(idx, c, 0)
          /\ dexCalls' = Put(dexCalls, c, 0)
          /\ UNCHANGED << cache, startedAt >>
     ELSE IF cached.hit
     THEN /\ pc' = Put(pc, c, "done")
          /\ dexOut' = Put(dexOut, c, <<>>)
          /\ result' = Put(result, c, Returned(cached.quote))
          /\ fromCache' = Put(fromCache, c, TRUE)
          /\ UNCHANGED appVars
          /\ cache' = cached.cache
          /\ attempt' = Put(attempt, c, 0)
          /\ idx' = Put(idx, c, 0)
          /\ dexCalls' = Put(dexCalls, c, 0)
          /\ UNCHANGED startedAt
     ELSE /\ pc' = Put(pc, c, "dex")
          /\ dexOut' = Put(dexOut, c, << <<>> >>)
          /\ result' = Put(result, c, None)
          /\ fromCache' = Put(fromCache, c, FALSE)
          /\ UNCHANGED appVars
          /\ cache' = cached.cache
          /\ attempt' = Put(attempt, c, 1)
          /\ idx' = Put(idx, c, 1)
          /\ dexCalls' = Put(dexCalls, c, 1)
          /\ startedAt' = Put(startedAt, c, now)

\* A caller invokes quoteService.getQuote(formData).
CallGetQuote(c, f) ==
  /\ pc[c] = "idle"
  /\ form' = Put(form, c, f)
  /\ bridgeOut' = Put(bridgeOut, c, <<>>)
  /\ bridgeCalls' = Put(bridgeCalls, c, 0)
  /\ getQuote(c, f)
  /\ UNCHANGED << now, wakeAt >>

\* ---------------------------------------- AggregatorService.getBestQuote
DexDeadline(c) == startedAt[c] + DEX_TIMEOUT

\* The provider call in flight may settle now with outcome o.
MaySettle(o, c, deadline) ==
  IF o.kind = "timeout" THEN now = deadline
  ELSE now < deadline /\ now - startedAt[c] \in Latencies

\* a failed provider discarding what was collected
DexQuotesAfterAbort(c, o) ==
  IF o.kind = "ok"
  THEN Append(quotes[c], transformQuoteResponse(o.resp, now))
  ELSE <<>>

\* quotes after the provider call in flight settled with outcome o
DexQuotesAfter(c, o) ==
  IF o.kind = "ok"
  THEN Append(quotes[c], transformQuoteResponse(o.resp, now))
  ELSE quotes[c]

DexSettled(c, o) == Settled(o, transformQuoteResponse(o.resp, now))

\* a failed aggregator asked again before the loop moves on
DexProviderSettlesRetrying(c, o) ==
  /\ pc[c] = "dex"
  /\ idx[c] < NumAggregators
  /\ MaySettle(o, c, DexDeadline(c))
  /\ quotes' = Put(quotes, c, DexQuotesAfter(c, o))
  /\ dexOut' = Put(dexOut, c, AddOutcome(dexOut[c], DexSettled(c, o)))
  /\ idx' = Put(idx, c, IF o.kind = "ok" THEN idx[c] + 1 ELSE idx[c])
  /\ startedAt' = Put(startedAt, c, now)
  /\ dexCalls' = Put(dexCalls, c, dexCalls[c] + 1)
  /\ UNCHANGED << now, cache, pc, form, attempt, wakeAt, lastError, result,
                  bridgeOut, delays, bridgeCalls, fromCache, appVars >>

\* An aggregator other than the last settles; the loop moves on to the next.
DexProviderSettles(c, o) ==
  /\ pc[c] = "dex"
  /\ idx[c] < NumAggregators
  /\ MaySettle(o, c, DexDeadline(c))
  /\ quotes' = Put(quotes, c, DexQuotesAfter(c, o))
  /\ dexOut' = Put(dexOut, c, AddOutcome(dexOut[c], DexSettled(c, o)))
  /\ idx' = Put(idx, c, idx[c] + 1)
  /\ startedAt' = Put(startedAt, c, now)
  /\ dexCalls' = Put(dexCalls, c, dexCalls[c] + 1)
  /\ UNCHANGED << now, cache, pc, form, attempt, wakeAt, lastError, result,
                  bridgeOut, delays, bridgeCalls, fromCache, appVars >>

\* The last aggregator settles with at least one quote collected:
\* getBestQuote returns, getQuote caches the quote and returns it.
DexRoundSucceeds(c, o) ==
  /\ pc[c] = "dex"
  /\ idx[c] = NumAggregators
  /\ MaySettle(o, c, DexDeadline(c))
  /\ DexQuotesAfter(c, o) # <<>>
  /\ LET quote == BestDexQuote(DexQuotesAfter(c, o))
     IN /\ cache' = cacheQuote(cache, requestHash(form[c]), quote, now)
        /\ result' = Put(result, c, Returned(quote))
  /\ quotes' = Put(quotes, c, DexQuotesAfter(c, o))
  /\ dexOut' = Put(dexOut, c, AddOutcome(dexOut[c], DexSettled(c, o)))
  /\ pc' = Put(pc, c, "done")
  /\ UNCHANGED << now, form, attempt, idx, startedAt, wakeAt, lastError,
                  bridgeOut, delays, dexCalls, bridgeCalls, fromCache, appVars >>

\* if (attempt < this.MAX_RETRIES)
BackoffAlways(n) == n <= MAX_RETRIES
ShouldBackoff(n) == n < MAX_RETRIES

\* this.RETRY_DELAY * attempt
BackoffConstant(n) == RETRY_DELAY
BackoffDelay(n) == RETRY_DELAY * n

\* a round without a quote that also empties the cache
DexRoundFailsClearing(c, o) ==
  /\ pc[c] = "dex"
  /\ idx[c] = NumAggregators
  /\ MaySettle(o, c, DexDeadline(c))
  /\ DexQuotesAfter(c, o) = <<>>
  /\ quotes' = Put(quotes, c, <<>>)
  /\ dexOut' = Put(dexOut, c, AddOutcome(dexOut[c], DexSettled(c, o)))
  /\ lastError' = Put(lastError, c, AllDexFailed(attempt[c]))
  /\ cache' = [h \in DOMAIN cache |-> NoEntry]
  /\ IF ShouldBackoff(attempt[c])
     THEN /\ pc' = Put(pc, c, "delay")
          /\ wakeAt' = Put(wakeAt, c, now + BackoffDelay(attempt[c]))
          /\ delays' = Put(delays, c, Append(delays[c], BackoffDelay(attempt[c])))
          /\ UNCHANGED result
     ELSE /\ pc' = Put(pc, c, "done")
          /\ result' = Put(result, c, Thrown(AllDexFailed(attempt[c])))
          /\ UNCHANGED << wakeAt, delays >>
  /\ UNCHANGED << now, form, attempt, idx, startedAt, bridgeOut,
                  dexCalls, bridgeCalls, fromCache, appVars >>

\* The last aggregator settles and no quote was collected: getBestQuote
\* throws; getQuote records the error and either backs off or gives up.
DexRoundFails(c, o) ==
  /\ pc[c] = "dex"
  /\ idx[c] = NumAggregators
  /\ MaySettle(o, c, DexDeadline(c))
  /\ DexQuotesAfter(c, o) = <<>>
  /\ quotes' = Put(quotes, c, <<>>)
  /\ dexOut' = Put(dexOut, c, AddOutcome(dexOut[c], DexSettled(c, o)))
  /\ lastError' = Put(lastError, c, AllDexFailed(attempt[c]))
  /\ IF ShouldBackoff(attempt[c])
     THEN /\ pc' = Put(pc, c, "delay")
          /\ wakeAt' = Put(wakeAt, c, now + BackoffDelay(attempt[c]))
          /\ delays' = Put(delays, c, Append(delays[c], BackoffDelay(attempt[c])))
          /\ UNCHANGED result
     ELSE /\ pc' = Put(pc, c, "done")
          /\ result' = Put(result, c, Thrown(AllDexFailed(attempt[c])))
          /\ UNCHANGED << wakeAt, delays >>
  /\ UNCHANGED << now, cache, form, attempt, idx, startedAt, bridgeOut,
                  dexCalls, bridgeCalls, fromCache, appVars >>

\* The backoff timer fires: next iteration of the retry loop.
\* the retry loop stepping back into the same attempt
DelayElapsedSameAttempt(c) ==
  /\ pc[c] = "delay"
  /\ now >= wakeAt[c]
  /\ pc' = Put(pc, c, "dex")
  /\ attempt' = Put(attempt, c, attempt[c])
  /\ idx' = Put(idx, c, 1)
  /\ startedAt' = Put(startedAt, c, now)
  /\ quotes' = Put(quotes, c, <<>>)
  /\ dexOut' = Put(dexOut, c, Append(dexOut[c], <<>>))
  /\ dexCalls' = Put(dexCalls, c, dexCalls[c] + 1)
  /\ UNCHANGED << now, cache, form, wakeAt, lastError, result, bridgeOut,
                  delays, bridgeCalls, fromCache, appVars >>

DelayElapsed(c) ==
  /\ pc[c] = "delay"
  /\ now >= wakeAt[c]
  /\ pc' = Put(pc, c, "dex")
  /\ attempt' = Put(attempt, c, attempt[c] + 1)
  /\ idx' = Put(idx, c, 1)
  /\ startedAt' = Put(startedAt, c, now)
  /\ quotes' = Put(quotes, c, <<>>)
  /\ dexOut' = Put(dexOut, c, Append(dexOut[c], <<>>))
  /\ dexCalls' = Put(dexCalls, c, dexCalls[c] + 1)
  /\ UNCHANGED << now, cache, form, wakeAt, lastError, result, bridgeOut,
                  delays, bridgeCalls, fromCache, appVars >>

\* ------------------------------------------------- routing decision
\* every request taken for a cross-chain one
isCrossChainAlways(f) == TRUE

\* const isCrossChain = formData.fromChain.id !== formData.toChain.id
isCrossChain(f) == f.fromChain # f.toChain

AllBridgesFailed ==
  [msg |-> "All bridge services failed to provide quotes", round |-> 0]

\* ------------------------------------------ SmartRouter.getOptimalQuote
CallGetOptimalQuote(c, f) ==
  /\ pc[c] = "idle"
  /\ form' = Put(form, c, f)
  /\ bridgeOut' = Put(bridgeOut, c, <<>>)
  /\ IF ~f.complete
     THEN /\ pc' = Put(pc, c, "done")
          /\ result' = Put(result, c, Thrown(InvalidParams))
          /\ fromCache' = Put(fromCache, c, FALSE)
          /\ UNCHANGED appVars
          /\ attempt' = Put(attempt, c, 0)
          /\ idx' = Put(idx, c, 0)
          /\ dexCalls' = Put(dexCalls, c, 0)
          /\ bridgeCalls' = Put(bridgeCalls, c, 0)
          /\ delays' = Put(delays, c, <<>>)
          /\ quotes' = Put(quotes, c, <<>>)
          /\ dexOut' = Put(dexOut, c, <<>>)
          /\ lastError' = Put(lastError, c, None)
          /\ UNCHANGED << cache, startedAt >>
     ELSE IF isCrossChain(f)
     THEN /\ pc' = Put(pc, c, "bridge")
          /\ result' = Put(result, c, None)
          /\ fromCache' = Put(fromCache, c, FALSE)
          /\ UNCHANGED appVars
          /\ attempt' = Put(attempt, c, 0)
          /\ idx' = Put(idx, c, 1)
          /\ startedAt' = Put(startedAt, c, now)
          /\ dexCalls' = Put(dexCalls, c, 0)
          /\ bridgeCalls' = Put(bridgeCalls, c, 1)
          /\ delays' = Put(delays, c, <<>>)
          /\ quotes' = Put(quotes, c, <<>>)
          /\ dexOut' = Put(dexOut, c, <<>>)
          /\ lastError' = Put(lastError, c, None)
          /\ UNCHANGED cache
     ELSE /\ bridgeCalls' = Put(bridgeCalls, c, 0)
          /\ getQuote(c, f)
  /\ UNCHANGED << now, wakeAt >>

\* the request getOptimalQuote and getMultipleQuotes hand to
\* getCrossChainQuote, which passes its amount on to every bridge
BridgeRequest(f) ==
  [ fromToken |-> f.fromToken, toToken |-> f.toToken, amount |-> f.amount,
    fromChain |-> f.fromChain, toChain |-> f.toChain,
    slippage |-> f.slippageTolerance ]

\* ------------------------------------ CrossChainRouter.getCrossChainQuote
BridgeDeadline(c) == startedAt[c] + BRIDGE_TIMEOUT

BridgeQuotesAfter(c, o) ==
  IF o.kind = "ok"
  THEN Append(quotes[c], transformBridgeQuote(o.resp, now))
  ELSE quotes[c]

BridgeSettled(c, o) == Settled(o, transformBridgeQuote(o.resp, now))

BridgeProviderSettles(c, o) ==
  /\ pc[c] = "bridge"
  /\ idx[c] < NumBridges
  /\ MaySettle(o, c, BridgeDeadline(c))
  /\ quotes' = Put(quotes, c, BridgeQuotesAfter(c, o))
  /\ bridgeOut' = Put(bridgeOut, c, Append(bridgeOut[c], BridgeSettled(c, o)))
  /\ idx' = Put(idx, c, idx[c] + 1)
  /\ startedAt' = Put(startedAt, c, now)
  /\ bridgeCalls' = Put(bridgeCalls, c, bridgeCalls[c] + 1)
  /\ UNCHANGED << now, cache, pc, form, attempt, wakeAt, lastError, result,
                  dexOut, delays, dexCalls, fromCache, appVars >>

\* the selected bridge quote also written to the quote cache
BridgeRoundSucceedsAndCaches(c, o) ==
  /\ pc[c] = "bridge"
  /\ idx[c] = NumBridges
  /\ MaySettle(o, c, BridgeDeadline(c))
  /\ BridgeQuotesAfter(c, o) # <<>>
  /\ LET quote == BestBridgeQuote(BridgeQuotesAfter(c, o))
     IN /\ cache' = cacheQuote(cache, requestHash(form[c]), quote, now)
        /\ result' = Put(result, c, Returned(quote))
  /\ quotes' = Put(quotes, c, BridgeQuotesAfter(c, o))
  /\ bridgeOut' = Put(bridgeOut, c, Append(bridgeOut[c], BridgeSettled(c, o)))
  /\ pc' = Put(pc, c, "done")
  /\ UNCHANGED << now, form, attempt, idx, startedAt, wakeAt,
                  lastError, dexOut, delays, dexCalls, bridgeCalls, fromCache, appVars >>

\* The last bridge settles with a quote collected: getOptimalQuote returns
\* the selected bridge quote.
BridgeRoundSucceeds(c, o) ==
  /\ pc[c] = "bridge"
  /\ idx[c] = NumBridges
  /\ MaySettle(o, c, BridgeDeadline(c))
  /\ BridgeQuotesAfter(c, o) # <<>>
  /\ result' = Put(result, c, Returned(BestBridgeQuote(BridgeQuotesAfter(c, o))))
  /\ quotes' = Put(quotes, c, BridgeQuotesAfter(c, o))
  /\ bridgeOut' = Put(bridgeOut, c, Append(bridgeOut[c], BridgeSettled(c, o)))
  /\ pc' = Put(pc, c, "done")
  /\ UNCHANGED << now, cache, form, attempt, idx, startedAt, wakeAt,
                  lastError, dexOut, delays, dexCalls, bridgeCalls, fromCache, appVars >>

\* the error of getCrossChainQuote rethrown to the caller
BridgeRoundFailsAndRethrows(c, o) ==
  /\ pc[c] = "bridge"
  /\ idx[c] = NumBridges
  /\ MaySettle(o, c, BridgeDeadline(c))
  /\ BridgeQuotesAfter(c, o) = <<>>
  /\ bridgeOut' = Put(bridgeOut, c, Append(bridgeOut[c], BridgeSettled(c, o)))
  /\ result' = Put(result, c, Thrown(AllBridgesFailed))
  /\ pc' = Put(pc, c, "done")
  /\ UNCHANGED << now, cache, form, attempt, idx, startedAt, wakeAt, quotes,
                  lastError, dexOut, delays, dexCalls, bridgeCalls, fromCache, appVars >>

\* The last bridge settles and no quote was collected: getCrossChainQuote
\* throws, getOptimalQuote catches and falls through to quoteService.getQuote.
BridgeRoundFails(c, o) ==
  /\ pc[c] = "bridge"
  /\ idx[c] = NumBridges
  /\ MaySettle(o, c, BridgeDeadline(c))
  /\ BridgeQuotesAfter(c, o) = <<>>
  /\ bridgeOut' = Put(bridgeOut, c, Append(bridgeOut[c], BridgeSettled(c, o)))
  /\ getQuote(c, form[c])
  /\ UNCHANGED << now, form, wakeAt, bridgeCalls >>

\* ------------------------------------------------------------------ clock
\* The clock advances.  A provider call is aborted at its timeout, a due
\* timer fires and a settled call resumes its caller before it advances
\* further.
Advance(cs, d) ==
  /\ \A c \in cs :
       /\ pc[c] = "dex" => now + d <= DexDeadline(c)
       /\ pc[c] = "bridge" => now + d <= BridgeDeadline(c)
       /\ pc[c] = "delay" => now < wakeAt[c]
       /\ pc[c] # "done"
  /\ now' = now + d
  /\ UNCHANGED << cache, pc, form, attempt, idx, startedAt, wakeAt, quotes,
                  lastError, result, dexOut, bridgeOut, delays, dexCalls,
                  bridgeCalls, fromCache, appVars >>

Tick(d) ==
  /\ now + d <= MaxTime
  /\ Advance(Calls, d)

\* The caller has taken the result of its call.
Release(c) ==
  /\ pc' = Put(pc, c, "idle")
  /\ form' = Put(form, c, NoForm)
  /\ attempt' = Put(attempt, c, 0)
  /\ idx' = Put(idx, c, 0)
  /\ startedAt' = Put(startedAt, c, 0)
  /\ wakeAt' = Put(wakeAt, c, 0)
  /\ quotes' = Put(quotes, c, <<>>)
  /\ lastError' = Put(lastError, c, None)
  /\ result' = Put(result, c, None)
  /\ dexOut' = Put(dexOut, c, <<>>)
  /\ bridgeOut' = Put(bridgeOut, c, <<>>)
  /\ delays' = Put(delays, c, <<>>)
  /\ dexCalls' = Put(dexCalls, c, 0)
  /\ bridgeCalls' = Put(bridgeCalls, c, 0)
  /\ fromCache' = Put(fromCache, c, FALSE)
  /\ UNCHANGED appVars
  /\ UNCHANGED << now, cache >>

Resume(c) ==
  /\ pc[c] = "done"
  /\ Release(c)

Next ==
  \/ \E c \in Calls, f \in FormDatas : CallGetQuote(c, f)
  \/ \E c \in Calls, f \in FormDatas : CallGetOptimalQuote(c, f)
  \/ \E c \in Calls, o \in Outcomes : DexProviderSettles(c, o)
  \/ \E c \in Calls, o \in Outcomes : DexRoundSucceeds(c, o)
  \/ \E c \in Calls, o \in Outcomes : DexRoundFails(c, o)
  \/ \E c \in Calls : DelayElapsed(c)
  \/ \E c \in Calls, o \in Outcomes : BridgeProviderSettles(c, o)
  \/ \E c \in Calls, o \in Outcomes : BridgeRoundSucceeds(c, o)
  \/ \E c \in Calls, o \in Outcomes : BridgeRoundFails(c, o)
  \/ \E d \in TickSteps : Tick(d)
  \/ \E c \in Calls : Resume(c)

Spec == Init /\ [][Next]_vars

\* ------------------------------------------- every call through the router
\* The engine as its callers use it: every request enters through
\* SmartRouter.getOptimalQuote.
RouterNext ==
  \/ \E c \in Calls, f \in FormDatas : CallGetOptimalQuote(c, f)
  \/ \E c \in Calls, o \in Outcomes : DexProviderSettles(c, o)
  \/ \E c \in Calls, o \in Outcomes : DexRoundSucceeds(c, o)
  \/ \E c \in Calls, o \in Outcomes : DexRoundFails(c, o)
  \/ \E c \in Calls : DelayElapsed(c)
  \/ \E c \in Calls, o \in Outcomes : BridgeProviderSettles(c, o)
  \/ \E c \in Calls, o \in Outcomes : BridgeRoundSucceeds(c, o)
  \/ \E c \in Calls, o \in Outcomes : BridgeRoundFails(c, o)
  \/ \E d \in TickSteps : Tick(d)
  \/ \E c \in Calls : Resume(c)

RouterSpec == Init /\ [][RouterNext]_vars

\* ------------------------------------------------ requests of every shape
\* The engine within one instant, asked for quotes on form data that no
\* validator has seen; the upstreams answer at once.
FormNext ==
  \/ \E c \in Calls, f \in UncheckedForms : CallGetQuote(c, f)
  \/ \E c \in Calls, f \in UncheckedForms : CallGetOptimalQuote(c, f)
  \/ \E c \in Calls, o \in Outcomes : DexProviderSettles(c, o)
  \/ \E c \in Calls, o \in Outcomes : DexRoundSucceeds(c, o)
  \/ \E c \in Calls, o \in Outcomes : DexRoundFails(c, o)
  \/ \E c \in Calls : Resume(c)

FormSpec == Init /\ [][FormNext]_vars

\* ------------------------------------------ SmartRouter.getMultipleQuotes
NoQuotes == [msg |-> "Unable to get any quotes", round |-> 0]

\* the results object returned; an absent quote is None
Results(same, cross, rec) ==
  [type |-> "quotes", sameChain |-> same, crossChain |-> cross,
   recommended |-> rec]

\* crossChainNetAmount > sameChainNetAmount ? results.crossChain
\*                                          : results.sameChain
Recommended(same, cross) ==
  IF FloatGt(NetAmount(cross), NetAmount(same)) THEN cross ELSE same

\* results when the cross-chain path gave no quote (or was not taken)
SameChainOnly(r) ==
  IF r.type = "quote" THEN Returned(Results(r.quote, None, r.quote))
  ELSE Thrown(NoQuotes)

\* A caller invokes smartRouter.getMultipleQuotes(formData): parameter
\* check, then quoteService.getQuote up to its first suspension.
CallGetMultipleQuotes(c, f) ==
  /\ pc[c] = "idle"
  /\ form' = Put(form, c, f)
  /\ bridgeOut' = Put(bridgeOut, c, <<>>)
  /\ bridgeCalls' = Put(bridgeCalls, c, 0)
  /\ IF ~f.complete
     THEN /\ pc' = Put(pc, c, "returned")
          /\ result' = Put(result, c, Thrown(InvalidParams))
          /\ fromCache' = Put(fromCache, c, FALSE)
          /\ UNCHANGED appVars
          /\ attempt' = Put(attempt, c, 0)
          /\ idx' = Put(idx, c, 0)
          /\ dexCalls' = Put(dexCalls, c, 0)
          /\ delays' = Put(delays, c, <<>>)
          /\ quotes' = Put(quotes, c, <<>>)
          /\ dexOut' = Put(dexOut, c, <<>>)
          /\ lastError' = Put(lastError, c, None)
          /\ UNCHANGED << cache, startedAt >>
     ELSE getQuote(c, f)
  /\ UNCHANGED << now, wakeAt >>

\* the failure of quoteService.getQuote thrown on to the caller
SameChainSettledStrict(c) ==
  /\ pc[c] = "done"
  /\ IF result[c].type = "error"
     THEN /\ pc' = Put(pc, c, "returned")
          /\ UNCHANGED << idx, startedAt, quotes, bridgeCalls, result >>
     ELSE IF isCrossChain(form[c])
     THEN /\ pc' = Put(pc, c, "bridge")
          /\ idx' = Put(idx, c, 1)
          /\ startedAt' = Put(startedAt, c, now)
          /\ quotes' = Put(quotes, c, <<>>)
          /\ bridgeCalls' = Put(bridgeCalls, c, 1)
          /\ UNCHANGED result
     ELSE /\ pc' = Put(pc, c, "returned")
          /\ result' = Put(result, c, SameChainOnly(result[c]))
          /\ UNCHANGED << idx, startedAt, quotes, bridgeCalls >>
  /\ UNCHANGED << now, cache, form, attempt, wakeAt, lastError, dexOut,
                  bridgeOut, delays, dexCalls, fromCache, appVars >>

\* quoteService.getQuote has settled (result holds its quote or its error):
\* getMultipleQuotes goes on to the cross-chain router, or returns.
SameChainSettled(c) ==
  /\ pc[c] = "done"
  /\ IF isCrossChain(form[c])
     THEN /\ pc' = Put(pc, c, "bridge")
          /\ idx' = Put(idx, c, 1)
          /\ startedAt' = Put(startedAt, c, now)
          /\ quotes' = Put(quotes, c, <<>>)
          /\ bridgeCalls' = Put(bridgeCalls, c, 1)
          /\ UNCHANGED result
     ELSE /\ pc' = Put(pc, c, "returned")
          /\ result' = Put(result, c, SameChainOnly(result[c]))
          /\ UNCHANGED << idx, startedAt, quotes, bridgeCalls >>
  /\ UNCHANGED << now, cache, form, attempt, wakeAt, lastError, dexOut,
                  bridgeOut, delays, dexCalls, fromCache, appVars >>

\* The last bridge settles with a quote collected: the cross-chain quote is
\* compared with the same-chain one, if there is one.
MultiBridgeRoundSucceeds(c, o) ==
  /\ pc[c] = "bridge"
  /\ idx[c] = NumBridges
  /\ MaySettle(o, c, BridgeDeadline(c))
  /\ BridgeQuotesAfter(c, o) # <<>>
  /\ LET cross == BestBridgeQuote(BridgeQuotesAfter(c, o))
     IN result' = Put(result, c,
          IF result[c].type = "quote"
          THEN Returned(Results(result[c].quote, cross,
                                Recommended(result[c].quote, cross)))
          ELSE Returned(Results(None, cross, cross)))
  /\ quotes' = Put(quotes, c, BridgeQuotesAfter(c, o))
  /\ bridgeOut' = Put(bridgeOut, c, Append(bridgeOut[c], BridgeSettled(c, o)))
  /\ pc' = Put(pc, c, "returned")
  /\ UNCHANGED << now, cache, form, attempt, idx, startedAt, wakeAt,
                  lastError, dexOut, delays, dexCalls, bridgeCalls, fromCache, appVars >>

\* The last bridge settles and no quote was collected: the error of
\* getCrossChainQuote is caught.
MultiBridgeRoundFails(c, o) ==
  /\ pc[c] = "bridge"
  /\ idx[c] = NumBridges
  /\ MaySettle(o, c, BridgeDeadline(c))
  /\ BridgeQuotesAfter(c, o) = <<>>
  /\ result' = Put(result, c, SameChainOnly(result[c]))
  /\ bridgeOut' = Put(bridgeOut, c, Append(bridgeOut[c], BridgeSettled(c, o)))
  /\ pc' = Put(pc, c, "returned")
  /\ UNCHANGED << now, cache, form, attempt, idx, startedAt, wakeAt, quotes,
                  lastError, dexOut, delays, dexCalls, bridgeCalls, fromCache, appVars >>

MultiTick(d) ==
  /\ now + d <= MaxTime
  /\ \A c \in Calls : pc[c] # "returned"
  /\ Advance(Calls, d)

\* One getMultipleQuotes call, made at any time on an engine just built.
MultiNext ==
  \/ \E c \in Calls, f \in FormDatas : CallGetMultipleQuotes(c, f)
  \/ \E c \in Calls, o \in Outcomes : DexProviderSettles(c, o)
  \/ \E c \in Calls, o \in Outcomes : DexRoundSucceeds(c, o)
  \/ \E c \in Calls, o \in Outcomes : DexRoundFails(c, o)
  \/ \E c \in Calls : DelayElapsed(c)
  \/ \E c \in Calls : SameChainSettled(c)
  \/ \E c \in Calls, o \in Outcomes : BridgeProviderSettles(c, o)
  \/ \E c \in Calls, o \in Outcomes : MultiBridgeRoundSucceeds(c, o)
  \/ \E c \in Calls, o \in Outcomes : MultiBridgeRoundFails(c, o)
  \/ \E d \in TickSteps : MultiTick(d)

MultiSpec == Init /\ [][MultiNext]_vars

\* ------------------------------------------------ selection on its own
\* The two reducers applied to candidate lists drawn from a set of upstream
\* answers that includes amounts of 2^53 and more.
MaxCandidates == 3

SelResponses ==
  [ toAmount : { Amt(0, 98), Amt(0, 100), Amt(0, 103), Amt(0, 105),
                 Amt(1, 0), Amt(1, 1) },
    gasEstimate : { Amt(0, 5), Amt(0, 6) } ]

SelLists == UNION { [1..n -> SelResponses] : n \in 1..MaxCandidates }

SelInit ==
  /\ now = 0
  /\ cache = [h \in Hashes |-> NoEntry]
  /\ \E pool \in {"selectDex", "selectBridge"}, rs \in SelLists :
       /\ pc = [c \in Calls |-> pool]
       /\ quotes = [c \in Calls |->
            [i \in 1..Len(rs) |->
               IF pool = "selectDex" THEN transformQuoteResponse(rs[i], now)
               ELSE transformBridgeQuote(rs[i], now)]]
  /\ form = [c \in Calls |-> NoForm]
  /\ attempt = [c \in Calls |-> 0]
  /\ idx = [c \in Calls |-> 0]
  /\ startedAt = [c \in Calls |-> 0]
  /\ wakeAt = [c \in Calls |-> 0]
  /\ lastError = [c \in Calls |-> None]
  /\ result = [c \in Calls |-> None]
  /\ dexOut = [c \in Calls |-> <<>>]
  /\ bridgeOut = [c \in Calls |-> <<>>]
  /\ delays = [c \in Calls |-> <<>>]
  /\ dexCalls = [c \in Calls |-> 0]
  /\ bridgeCalls = [c \in Calls |-> 0]
  /\ fromCache = [c \in Calls |-> FALSE]
  /\ AppAtRest

\* the return statement of AggregatorService.getBestQuote
SelectDex(c) ==
  /\ pc[c] = "selectDex"
  /\ result' = Put(result, c, Returned(BestDexQuote(quotes[c])))
  /\ pc' = Put(pc, c, "done")
  /\ UNCHANGED << now, cache, form, attempt, idx, startedAt, wakeAt, quotes,
                  lastError, dexOut, bridgeOut, delays, dexCalls,
                  bridgeCalls, fromCache, appVars >>

\* the return statement of CrossChainRouter.getCrossChainQuote
SelectBridge(c) ==
  /\ pc[c] = "selectBridge"
  /\ result' = Put(result, c, Returned(BestBridgeQuote(quotes[c])))
  /\ pc' = Put(pc, c, "done")
  /\ UNCHANGED << now, cache, form, attempt, idx, startedAt, wakeAt, quotes,
                  lastError, dexOut, bridgeOut, delays, dexCalls,
                  bridgeCalls, fromCache, appVars >>

SelNext ==
  \/ \E c \in Calls : SelectDex(c)
  \/ \E c \in Calls : SelectBridge(c)

SelSpec == SelInit /\ [][SelNext]_vars

\* --------------------------------------------- recommendation on its own
\* The comparison of getMultipleQuotes applied to a same-chain and a
\* cross-chain quote drawn from the upstream answers of the selection.
RecInit ==
  /\ now = 0
  /\ cache = [h \in Hashes |-> NoEntry]
  /\ pc = [c \in Calls |-> "recommend"]
  /\ \E s \in SelResponses, x \in SelResponses :
       quotes = [c \in Calls |->
         << transformQuoteResponse(s, now), transformBridgeQuote(x, now) >>]
  /\ form = [c \in Calls |-> NoForm]
  /\ attempt = [c \in Calls |-> 0]
  /\ idx = [c \in Calls |-> 0]
  /\ startedAt = [c \in Calls |-> 0]
  /\ wakeAt = [c \in Calls |-> 0]
  /\ lastError = [c \in Calls |-> None]
  /\ result = [c \in Calls |-> None]
  /\ dexOut = [c \in Calls |-> <<>>]
  /\ bridgeOut = [c \in Calls |-> <<>>]
  /\ delays = [c \in Calls |-> <<>>]
  /\ dexCalls = [c \in Calls |-> 0]
  /\ bridgeCalls = [c \in Calls |-> 0]
  /\ fromCache = [c \in Calls |-> FALSE]
  /\ AppAtRest

\* if (results.sameChain && results.crossChain) { ... } return results
Recommend(c) ==
  /\ pc[c] = "recommend"
  /\ result' = Put(result, c,
       Returned(Results(quotes[c][1], quotes[c][2],
                        Recommended(quotes[c][1], quotes[c][2]))))
  /\ pc' = Put(pc, c, "returned")
  /\ UNCHANGED << now, cache, form, attempt, idx, startedAt, wakeAt, quotes,
                  lastError, dexOut, bridgeOut, delays, dexCalls,
                  bridgeCalls, fromCache, appVars >>

RecNext == \E c \in Calls : Recommend(c)

RecSpec == RecInit /\ [][RecNext]_vars

\* ------------------------------------------------ the cache under load
\* More requests than the cache has capacity for: request n asks for the
\* amount n, so that the requests have different fingerprints.  Each is a
\* getQuote call that misses the cache and whose first round is answered at
\* once; the requests come in the order of their amounts, and the clock is
\* looked at when they start and once more, MaxTime later.
MaxKeys == 102

LoadForm(n) == [SoundForm EXCEPT !.amount = NatString(n)]

LoadHashes == { requestHash(LoadForm(n)) : n \in 1..MaxKeys }

\* the number of the request f, 0 for the form of no request
RequestNo(f) ==
  IF \E n \in 1..MaxKeys : f = LoadForm(n)
  THEN CHOOSE n \in 1..MaxKeys : f = LoadForm(n)
  ELSE 0

LoadInit ==
  /\ now = 0
  /\ cache = [h \in LoadHashes |-> NoEntry]
  /\ pc = [c \in Calls |-> "idle"]
  /\ form = [c \in Calls |-> NoForm]
  /\ attempt = [c \in Calls |-> 0]
  /\ idx = [c \in Calls |-> 0]
  /\ startedAt = [c \in Calls |-> 0]
  /\ wakeAt = [c \in Calls |-> 0]
  /\ quotes = [c \in Calls |-> <<>>]
  /\ lastError = [c \in Calls |-> None]
  /\ result = [c \in Calls |-> None]
  /\ dexOut = [c \in Calls |-> <<>>]
  /\ bridgeOut = [c \in Calls |-> <<>>]
  /\ delays = [c \in Calls |-> <<>>]
  /\ dexCalls = [c \in Calls |-> 0]
  /\ bridgeCalls = [c \in Calls |-> 0]
  /\ fromCache = [c \in Calls |-> FALSE]
  /\ AppAtRest

\* getQuote for the next request, from its cache miss to cacheQuote: the
\* three aggregators answer r at once.
ServeRequest(c, r) ==
  LET f == LoadForm(RequestNo(form[c]) + 1)
      h == requestHash(f)
      quote == BestDexQuote([i \in 1..NumAggregators |->
                               transformQuoteResponse(r, now)])
  IN /\ pc[c] = "idle"
     /\ RequestNo(form[c]) < MaxKeys
     /\ ~getCachedQuote(cache, h, now).hit
     /\ form' = Put(form, c, f)
     /\ cache' = cacheQuote(getCachedQuote(cache, h, now).cache, h, quote, now)
     /\ result' = Put(result, c, Returned(quote))
     /\ UNCHANGED << now, pc, attempt, idx, startedAt, wakeAt, quotes,
                     lastError, dexOut, bridgeOut, delays, dexCalls,
                     bridgeCalls, fromCache, appVars >>

LoadNext ==
  \/ \E c \in Calls, r \in {CHOOSE x \in Responses : TRUE} : ServeRequest(c, r)
  \/ \E d \in {MaxTime} : Tick(d)

LoadSpec == LoadInit /\ [][LoadNext]_vars

\* ------------------------------------------- TransactionService.executeSwap
\* A quote is handed to a caller by the engine and executed some time later.
QuoteExpired ==
  [msg |-> "Swap execution failed: Quote has expired", round |-> 0]

\* encodeFunctionData, a library call, rejects the call data it is given
EncodingFailed ==
  [msg |-> "Swap execution failed: encoding", round |-> 0]

\* { transaction, result } of executeSwap
Executed(q, status, sponsored) ==
  [type |-> "transaction", amountOut |-> q.toAmount, status |-> status,
   sponsored |-> sponsored]

\* The engine hands the caller a quote that a provider client has just made.
ObtainQuote(c, r) ==
  /\ pc[c] = "idle"
  /\ pc' = Put(pc, c, "holding")
  /\ quotes' = Put(quotes, c, <<transformQuoteResponse(r, now)>>)
  /\ UNCHANGED << now, cache, form, attempt, idx, startedAt, wakeAt,
                  lastError, result, dexOut, bridgeOut, delays, dexCalls,
                  bridgeCalls, fromCache, appVars >>

\* executeSwap from its entry to the first call to the chain: the validity
\* check, prepareSwapTransaction (whose encoding is a library call that
\* returns or throws), then handleGasRelay or estimateGas.
ExecuteSwap(c, gasRelayEnabled, encoded) ==
  /\ pc[c] = "holding"
  /\ IF now > quotes[c][1].validUntil
     THEN /\ pc' = Put(pc, c, "done")
          /\ result' = Put(result, c, Thrown(QuoteExpired))
     ELSE IF ~encoded
     THEN /\ pc' = Put(pc, c, "done")
          /\ result' = Put(result, c, Thrown(EncodingFailed))
     ELSE /\ pc' = Put(pc, c, IF gasRelayEnabled THEN "gasRelay" ELSE "estimateGas")
          /\ UNCHANGED result
  /\ UNCHANGED << now, cache, form, attempt, idx, startedAt, wakeAt, quotes,
                  lastError, dexOut, bridgeOut, delays, dexCalls,
                  bridgeCalls, fromCache, appVars >>

\* handleGasRelay settles, the gas sponsored or not; submitTransaction starts.
GasRelaySettles(c, sponsored) ==
  /\ pc[c] = "gasRelay"
  /\ pc' = Put(pc, c, IF sponsored THEN "submitSponsored" ELSE "submit")
  /\ UNCHANGED << now, cache, form, attempt, idx, startedAt, wakeAt, quotes,
                  lastError, result, dexOut, bridgeOut, delays, dexCalls,
                  bridgeCalls, fromCache, appVars >>

\* estimateGas settles; submitTransaction starts.
EstimateGasSettles(c) ==
  /\ pc[c] = "estimateGas"
  /\ pc' = Put(pc, c, "submit")
  /\ UNCHANGED << now, cache, form, attempt, idx, startedAt, wakeAt, quotes,
                  lastError, result, dexOut, bridgeOut, delays, dexCalls,
                  bridgeCalls, fromCache, appVars >>

\* submitTransaction settles with the status of the transaction.
SubmitSettles(c, status) ==
  /\ pc[c] \in {"submit", "submitSponsored"}
  /\ pc' = Put(pc, c, "done")
  /\ result' = Put(result, c,
       Returned(Executed(quotes[c][1], status, pc[c] = "submitSponsored")))
  /\ UNCHANGED << now, cache, form, attempt, idx, startedAt, wakeAt, quotes,
                  lastError, dexOut, bridgeOut, delays, dexCalls,
                  bridgeCalls, fromCache, appVars >>

ExecNext ==
  \/ \E c \in Calls, r \in Responses : ObtainQuote(c, r)
  \/ \E c \in Calls, g, e \in BOOLEAN : ExecuteSwap(c, g, e)
  \/ \E c \in Calls, s \in BOOLEAN : GasRelaySettles(c, s)
  \/ \E c \in Calls : EstimateGasSettles(c)
  \/ \E c \in Calls, s \in {"success", "error"} : SubmitSettles(c, s)
  \/ \E d \in TickSteps : Tick(d)
  \/ \E c \in Calls : Resume(c)

ExecSpec == Init /\ [][ExecNext]_vars

\* ------------------------------------------ two getQuote calls in flight
\* Two callers of the one quoteService, their calls interleaved at the
\* awaits; the clock runs to ConcHorizon.
ConcHorizon == 10000

Pair == {1, 2}

ConcForms == { SoundForm, [SoundForm EXCEPT !.slippageTolerance = 0] }

ConcInit ==
  /\ now = 0
  /\ cache = [h \in Hashes |-> NoEntry]
  /\ pc = [c \in Pair |-> "idle"]
  /\ form = [c \in Pair |-> NoForm]
  /\ attempt = [c \in Pair |-> 0]
  /\ idx = [c \in Pair |-> 0]
  /\ startedAt = [c \in Pair |-> 0]
  /\ wakeAt = [c \in Pair |-> 0]
  /\ quotes = [c \in Pair |-> <<>>]
  /\ lastError = [c \in Pair |-> None]
  /\ result = [c \in Pair |-> None]
  /\ dexOut = [c \in Pair |-> <<>>]
  /\ bridgeOut = [c \in Pair |-> <<>>]
  /\ delays = [c \in Pair |-> <<>>]
  /\ dexCalls = [c \in Pair |-> 0]
  /\ bridgeCalls = [c \in Pair |-> 0]
  /\ fromCache = [c \in Pair |-> FALSE]
  /\ AppAtRest

\* what the providers answer here: a quote or an error status, at once
ConcOutcomes == { o \in Outcomes : o.kind # "timeout" }

\* Time passes while the calls in flight wait; a finished call holds
\* nothing back.
ConcTick(d) ==
  /\ now + d <= ConcHorizon
  /\ \A c \in Pair :
       /\ pc[c] = "dex" => now + d <= DexDeadline(c)
       /\ pc[c] = "delay" => now < wakeAt[c]
  /\ now' = now + d
  /\ UNCHANGED << cache, pc, form, attempt, idx, startedAt, wakeAt, quotes,
                  lastError, result, dexOut, bridgeOut, delays, dexCalls,
                  bridgeCalls, fromCache, appVars >>

ConcNext ==
  \/ \E c \in Pair, f \in ConcForms : CallGetQuote(c, f)
  \/ \E c \in Pair, o \in ConcOutcomes : DexProviderSettles(c, o)
  \/ \E c \in Pair, o \in ConcOutcomes : DexRoundSucceeds(c, o)
  \/ \E c \in Pair, o \in ConcOutcomes : DexRoundFails(c, o)
  \/ \E c \in Pair : DelayElapsed(c)
  \/ \E d \in TickSteps : ConcTick(d)

ConcSpec == ConcInit /\ [][ConcNext]_vars

\* --------------------------------- one getOptimalQuote call run to its end
\* One call on a fresh engine; the clock runs past the end of the slowest
\* call: every bridge and every aggregator of every round timing out, and
\* both backoff waits, each timer firing at the first clock step at or after
\* its time.
LiveHorizon == 150000

LiveTick(d) ==
  /\ \A c \in Calls : pc[c] # "idle"
  /\ now + d <= LiveHorizon
  /\ Advance(Calls, d)

\* what a started call does without its caller: provider calls settle,
\* timers fire, time passes
LiveProgress ==
  \/ \E c \in Calls, o \in Outcomes : DexProviderSettles(c, o)
  \/ \E c \in Calls, o \in Outcomes : DexRoundSucceeds(c, o)
  \/ \E c \in Calls, o \in Outcomes : DexRoundFails(c, o)
  \/ \E c \in Calls : DelayElapsed(c)
  \/ \E c \in Calls, o \in Outcomes : BridgeProviderSettles(c, o)
  \/ \E c \in Calls, o \in Outcomes : BridgeRoundSucceeds(c, o)
  \/ \E c \in Calls, o \in Outcomes : BridgeRoundFails(c, o)
  \/ \E d \in TickSteps : LiveTick(d)

LiveNext ==
  \/ \E c \in Calls, f \in FormDatas : CallGetOptimalQuote(c, f)
  \/ LiveProgress

\* Every provider call in flight settles and every timer fires; nothing
\* obliges a caller to call.
LiveSpec == Init /\ [][LiveNext]_vars /\ WF_vars(LiveProgress)

\* ------------------------------------- amount normalization on its own
\* convertToWei and parseUnits applied to every string of at most
\* MaxAmountLen characters out of "0", "1", "5" and ".", and to "1.23456789",
\* for tokens of 0 to MaxDecimals decimals and of 6 decimals.
MaxAmountLen == 4
MaxDecimals == 3

Computed(v) == [type |-> "value", value |-> v]

AmountStrings ==
  UNION { [1..n -> {48, 49, 53, 46}] : n \in 0..MaxAmountLen }
    \cup { <<49, 46, 50, 51, 52, 53, 54, 55, 56, 57>> }

WeiForms ==
  { [SoundForm EXCEPT !.amount = s, !.fromToken.decimals = d] :
      s \in AmountStrings, d \in (0..MaxDecimals) \cup {6} }

\* the variables the stand-alone specifications leave at their initial value
AtRest ==
  /\ now = 0
  /\ cache = [h \in Hashes |-> NoEntry]
  /\ attempt = [c \in Calls |-> 0]
  /\ idx = [c \in Calls |-> 0]
  /\ startedAt = [c \in Calls |-> 0]
  /\ wakeAt = [c \in Calls |-> 0]
  /\ quotes = [c \in Calls |-> <<>>]
  /\ lastError = [c \in Calls |-> None]
  /\ result = [c \in Calls |-> None]
  /\ dexOut = [c \in Calls |-> <<>>]
  /\ bridgeOut = [c \in Calls |-> <<>>]
  /\ delays = [c \in Calls |-> <<>>]
  /\ dexCalls = [c \in Calls |-> 0]
  /\ bridgeCalls = [c \in Calls |-> 0]
  /\ fromCache = [c \in Calls |-> FALSE]
  /\ AppAtRest

WeiInit ==
  /\ AtRest
  /\ \E op \in {"convertToWei", "parseUnits"}, f \in WeiForms :
       /\ pc = [c \in Calls |-> op]
       /\ form = [c \in Calls |-> f]

\* amount: this.convertToWei(formData.amount, formData.fromToken.decimals)
ConvertToWei(c) ==
  /\ pc[c] = "convertToWei"
  /\ result' = Put(result, c,
       Computed(convertToWei(form[c].amount, form[c].fromToken.decimals)))
  /\ pc' = Put(pc, c, "done")
  /\ UNCHANGED << now, cache, form, attempt, idx, startedAt, wakeAt, quotes,
                  lastError, dexOut, bridgeOut, delays, dexCalls,
                  bridgeCalls, fromCache, appVars >>

\* parseUnits(value, decimals), the result as its decimal numeral
ParseUnits(c) ==
  /\ pc[c] = "parseUnits"
  /\ result' = Put(result, c,
       Computed(parseUnits(form[c].amount, form[c].fromToken.decimals)))
  /\ pc' = Put(pc, c, "parsed")
  /\ UNCHANGED << now, cache, form, attempt, idx, startedAt, wakeAt, quotes,
                  lastError, dexOut, bridgeOut, delays, dexCalls,
                  bridgeCalls, fromCache, appVars >>

WeiNext ==
  \/ \E c \in Calls : ConvertToWei(c)
  \/ \E c \in Calls : ParseUnits(c)

WeiSpec == WeiInit /\ [][WeiNext]_vars

\* ------------------------------------------ request fingerprint on its own
\* The fingerprint of requests that differ in each of the six fields of the
\* key, among them token addresses that differ in letter case only.
KeyForms ==
  [ complete : {TRUE},
    fromToken : {TokenAa, TokenAaLower, TokenBB},
    toToken : {TokenCd, TokenCdLower},
    amount : {<<49, 46, 53>>, <<50>>},
    fromChain : {1, 10}, toChain : {1, 2},
    slippageTolerance : {50, 100} ]

KeyInit ==
  /\ AtRest
  /\ pc = [c \in Calls |-> "fingerprint"]
  /\ \E f \in KeyForms : form = [c \in Calls |-> f]

\* getQuote up to const requestHash = this.generateRequestHash(request)
Fingerprint(c) ==
  /\ pc[c] = "fingerprint"
  /\ result' = Put(result, c, Computed(requestHash(form[c])))
  /\ pc' = Put(pc, c, "done")
  /\ UNCHANGED << now, cache, form, attempt, idx, startedAt, wakeAt, quotes,
                  lastError, dexOut, bridgeOut, delays, dexCalls,
                  bridgeCalls, fromCache, appVars >>

KeyNext == \E c \in Calls : Fingerprint(c)

KeySpec == KeyInit /\ [][KeyNext]_vars

\* ------------------------------------------------------------- debounce
\* the engine's variables but the clock
quoteVars == << cache, pc, form, attempt, idx, startedAt, wakeAt, quotes,
                lastError, result, dexOut, bridgeOut, delays, dexCalls,
                bridgeCalls, fromCache >>

\* debounce(..., 500) in SwapForm
DEBOUNCE_WAIT == 500

\* Calls of the debounced function arrive on a grid of DebounceStep ms, at
\* most MaxDebounced of them, up to DebounceHorizon.
DebounceStep == 250
MaxDebounced == 4
DebounceHorizon == 3000

DebounceArgs == {"a", "b"}

\* setTimeout(() => func(...args), wait); no is the number of the call
Timer(no, args, at) ==
  [type |-> "timer", no |-> no, args |-> args, at |-> at, pending |-> TRUE]

TimerPending == timeout # None /\ timeout.pending

\* the debounced function that keeps a timer already pending
setTimeoutUnlessPending(no, args, wait) ==
  IF TimerPending THEN timeout ELSE Timer(no, args, now + wait)

\* if (timeout) clearTimeout(timeout); timeout = setTimeout(..., wait)
setTimeout(no, args, wait) == Timer(no, args, now + wait)

\* The function returned by debounce is called with args.
CallDebounced(args, wait) ==
  /\ Len(debounced) < MaxDebounced
  /\ timeout' = setTimeout(Len(debounced) + 1, args, wait)
  /\ debounced' = Append(debounced, [args |-> args, at |-> now])
  /\ UNCHANGED << now, quoteVars, formData, invoked, fetching, displayedQuote,
                  isLoadingQuote, isSwapping, swapStatus, error, swapping,
                  resetTimers, authVars, gateVars >>

\* The timer fires: func(...args).  The handle stays in timeout.
TimeoutFires ==
  /\ TimerPending
  /\ now = timeout.at
  /\ timeout' = [timeout EXCEPT !.pending = FALSE]
  /\ invoked' = Append(invoked, [no |-> timeout.no, args |-> timeout.args,
                                  at |-> now])
  /\ UNCHANGED << now, quoteVars, formData, debounced, fetching,
                  displayedQuote, isLoadingQuote, isSwapping, swapStatus,
                  error, swapping, resetTimers, authVars, gateVars >>

\* Time passes, no further than the time of the pending timer.
DebounceTick(d) ==
  /\ now + d <= DebounceHorizon
  /\ TimerPending => now + d <= timeout.at
  /\ now' = now + d
  /\ UNCHANGED << quoteVars, appVars >>

DebounceNext ==
  \/ \E args \in DebounceArgs : CallDebounced(args, DEBOUNCE_WAIT)
  \/ TimeoutFires
  \/ \E d \in {DebounceStep} : DebounceTick(d)

DebounceSpec == Init /\ [][DebounceNext]_vars

\* ------------------------------------------------------------- SwapForm
\* The form from its first render on: the user edits the amount and swaps
\* the tokens at most MaxEdits times in all and presses Swap when the button
\* is enabled; time runs on a grid of FormStep ms up to FormHorizon.
FETCH_LATENCY == 1000
SWAP_LATENCY == 3000
STATUS_RESET == 5000
MOCK_QUOTE_VALIDITY == 30000

FormStep == 500
MaxEdits == 3
FormHorizon == 10000

\* '', '0', '1' and '2'
TypedAmounts == {<<>>, <<48>>, <<49>>, <<50>>}

\* parseFloat(s) > 0, for s written in digits
PositiveNumber(s) == \E i \in 1..Len(s) : s[i] \in 49..57

\* !data.fromToken || !data.toToken || !data.amount
\*   || parseFloat(data.amount) <= 0
NothingToQuote(data) == data.amount = <<>> \/ ~PositiveNumber(data.amount)

mockQuote(data, t) ==
  [type |-> "quote", fromToken |-> data.fromToken, toToken |-> data.toToken,
   fromAmount |-> data.amount, validUntil |-> t + MOCK_QUOTE_VALIDITY]

\* useEffect(() => { fetchQuote(formData) }, [...]) after a render with data
FetchQuoteEffect(data) ==
  /\ Len(debounced) < MaxEdits
  /\ timeout' = setTimeout(Len(debounced) + 1, data, DEBOUNCE_WAIT)
  /\ debounced' = Append(debounced, [args |-> data, at |-> now])

\* The first render's effect.
Mount ==
  /\ debounced = <<>>
  /\ FetchQuoteEffect(formData)
  /\ UNCHANGED << now, quoteVars, formData, invoked, fetching, displayedQuote,
                  isLoadingQuote, isSwapping, swapStatus, error, swapping,
                  resetTimers, authVars, gateVars >>

\* onChange of the amount field
ChangeAmount(a) ==
  /\ debounced # <<>>
  /\ a # formData.amount
  /\ formData' = [formData EXCEPT !.amount = a]
  /\ FetchQuoteEffect(formData')
  /\ UNCHANGED << now, quoteVars, invoked, fetching, displayedQuote,
                  isLoadingQuote, isSwapping, swapStatus, error, swapping,
                  resetTimers, authVars, gateVars >>

handleTokenSwap ==
  /\ debounced # <<>>
  /\ formData' = [formData EXCEPT !.fromToken = formData.toToken,
                                  !.toToken = formData.fromToken]
  /\ FetchQuoteEffect(formData')
  /\ UNCHANGED << now, quoteVars, invoked, fetching, displayedQuote,
                  isLoadingQuote, isSwapping, swapStatus, error, swapping,
                  resetTimers, authVars, gateVars >>

\* The debounce timer fires: the body of fetchQuote up to its await.
FetchQuoteStarts ==
  /\ TimerPending
  /\ now = timeout.at
  /\ timeout' = [timeout EXCEPT !.pending = FALSE]
  /\ invoked' = Append(invoked, [no |-> timeout.no, args |-> timeout.args,
                                  at |-> now])
  /\ IF NothingToQuote(timeout.args)
     THEN /\ displayedQuote' = None
          /\ UNCHANGED << isLoadingQuote, error, fetching >>
     ELSE /\ isLoadingQuote' = TRUE
          /\ error' = None
          /\ fetching' = fetching \cup
               {[data |-> timeout.args, doneAt |-> now + FETCH_LATENCY]}
          /\ UNCHANGED displayedQuote
  /\ UNCHANGED << now, quoteVars, formData, debounced, isSwapping, swapStatus,
                  swapping, resetTimers, authVars, gateVars >>

\* The awaited quote arrives: setQuote(mockQuote), then the finally block.
FetchQuoteSettles ==
  /\ \E f \in fetching :
       /\ now = f.doneAt
       /\ displayedQuote' = mockQuote(f.data, now)
       /\ fetching' = fetching \ {f}
  /\ isLoadingQuote' = FALSE
  /\ UNCHANGED << now, quoteVars, formData, timeout, debounced, invoked,
                  isSwapping, swapStatus, error, swapping, resetTimers,
                  authVars, gateVars >>

\* disabled={!isFormValid || isSwapping}
SwapEnabled ==
  /\ ~NothingToQuote(formData)
  /\ displayedQuote # None
  /\ ~isSwapping

\* The user presses Swap: handleSwap up to its await.
handleSwap ==
  /\ SwapEnabled
  /\ isSwapping' = TRUE
  /\ swapStatus' = "pending"
  /\ error' = None
  /\ swapping' = [type |-> "swap", doneAt |-> now + SWAP_LATENCY]
  /\ UNCHANGED << now, quoteVars, formData, timeout, debounced, invoked,
                  fetching, displayedQuote, isLoadingQuote, resetTimers,
                  authVars, gateVars >>

\* The simulated transaction ends, well or not; the finally block arms the
\* status reset.
SwapSettles(ok) ==
  /\ swapping # None
  /\ now = swapping.doneAt
  /\ IF ok
     THEN swapStatus' = "success" /\ UNCHANGED error
     ELSE swapStatus' = "error"
            /\ error' = [type |-> "message", msg |-> "Transaction failed"]
  /\ isSwapping' = FALSE
  /\ swapping' = None
  /\ resetTimers' = resetTimers \cup {now + STATUS_RESET}
  /\ UNCHANGED << now, quoteVars, formData, timeout, debounced, invoked,
                  fetching, displayedQuote, isLoadingQuote, authVars,
                  gateVars >>

\* setTimeout(() => { setSwapStatus('idle'); setError(null) }, 5000) fires
StatusResetFires ==
  /\ now \in resetTimers
  /\ swapStatus' = "idle"
  /\ error' = None
  /\ resetTimers' = resetTimers \ {now}
  /\ UNCHANGED << now, quoteVars, formData, timeout, debounced, invoked,
                  fetching, displayedQuote, isLoadingQuote, isSwapping,
                  swapping, authVars, gateVars >>

\* Time passes, no further than the next timer or arrival.
FormTick(d) ==
  /\ debounced # <<>>
  /\ now + d <= FormHorizon
  /\ TimerPending => now + d <= timeout.at
  /\ \A f \in fetching : now + d <= f.doneAt
  /\ swapping # None => now + d <= swapping.doneAt
  /\ \A t \in resetTimers : now + d <= t
  /\ now' = now + d
  /\ UNCHANGED << quoteVars, appVars >>

SwapFormNext ==
  \/ Mount
  \/ \E a \in TypedAmounts : ChangeAmount(a)
  \/ handleTokenSwap
  \/ FetchQuoteStarts
  \/ FetchQuoteSettles
  \/ handleSwap
  \/ \E ok \in BOOLEAN : SwapSettles(ok)
  \/ StatusResetFires
  \/ \E d \in {FormStep} : FormTick(d)

SwapFormSpec == Init /\ [][SwapFormNext]_vars

\* ------------------------------------------------------- ApiAuthService
\* Requests arrive with one of the test keys, with a key the service does not
\* know or with none, at times on a grid of AuthStep ms up to AuthHorizon;
\* the premium test key is used at most MaxOtherRequests times a window.  No
\* key is created.
RATE_WINDOW == 60000

AuthStep == 30000
AuthHorizon == 120000
MaxOtherRequests == 2

NoApiKey == "(none)"
PresentedKeys == TestKeys \cup {"unknown_key", NoApiKey}

Accepted(k) == [isAuthenticated |-> TRUE, key |-> k, error |-> "none"]
Rejected(k, e) == [isAuthenticated |-> FALSE, key |-> k, error |-> e]

RateLimit(n, t) == [requests |-> n, resetTime |-> t]

\* checkRateLimit letting one request more through
checkRateLimitInclusive(rl, limit, t) ==
  IF rl = None
  THEN [allowed |-> TRUE, rateLimit |-> RateLimit(1, t + RATE_WINDOW)]
  ELSE IF t > rl.resetTime
  THEN [allowed |-> TRUE, rateLimit |-> RateLimit(1, t + RATE_WINDOW)]
  ELSE IF rl.requests > limit
  THEN [allowed |-> FALSE, rateLimit |-> rl]
  ELSE [allowed |-> TRUE, rateLimit |-> RateLimit(rl.requests + 1, rl.resetTime)]

\* checkRateLimit for the stored record rl of a key: whether the request is
\* allowed, and the record afterwards
checkRateLimit(rl, limit, t) ==
  IF rl = None
  THEN [allowed |-> TRUE, rateLimit |-> RateLimit(1, t + RATE_WINDOW)]
  ELSE IF t > rl.resetTime
  THEN [allowed |-> TRUE, rateLimit |-> RateLimit(1, t + RATE_WINDOW)]
  ELSE IF rl.requests >= limit
  THEN [allowed |-> FALSE, rateLimit |-> rl]
  ELSE [allowed |-> TRUE, rateLimit |-> RateLimit(rl.requests + 1, rl.resetTime)]

\* authenticate(request), k the key in the request's headers
Requests(k) == IF rateLimits[k] = None THEN 0 ELSE rateLimits[k].requests

authenticate(k) ==
  /\ k = "test_premium_key_456" => Requests(k) < MaxOtherRequests
  /\ IF k = NoApiKey
     THEN /\ authResult' = Rejected(k, "API key is required")
          /\ UNCHANGED << apiKeys, rateLimits >>
     ELSE IF k \notin DOMAIN apiKeys
     THEN /\ authResult' = Rejected(k, "Invalid API key")
          /\ UNCHANGED << apiKeys, rateLimits >>
     ELSE IF ~apiKeys[k].isActive
     THEN /\ authResult' = Rejected(k, "API key is inactive")
          /\ UNCHANGED << apiKeys, rateLimits >>
     ELSE LET check == checkRateLimit(rateLimits[k], apiKeys[k].rateLimit, now)
          IN IF ~check.allowed
             THEN /\ authResult' = Rejected(k, "Rate limit exceeded")
                  /\ UNCHANGED << apiKeys, rateLimits >>
             ELSE /\ rateLimits' = [rateLimits EXCEPT ![k] = check.rateLimit]
                  /\ apiKeys' = [apiKeys EXCEPT ![k].lastUsed = now]
                  /\ authResult' = Accepted(k)
  /\ UNCHANGED << now, quoteVars, formVars, gateVars >>

\* revokeApiKey(apiKey), for a key the service holds
revokeApiKey(k) ==
  /\ k \in DOMAIN apiKeys
  /\ apiKeys' = [apiKeys EXCEPT ![k].isActive = FALSE]
  /\ UNCHANGED << now, quoteVars, formVars, rateLimits, authResult, gateVars >>

AuthTick(d) ==
  /\ now + d <= AuthHorizon
  /\ now' = now + d
  /\ UNCHANGED << quoteVars, appVars >>

AuthNext ==
  \/ \E k \in PresentedKeys : authenticate(k)
  \/ \E k \in TestKeys : revokeApiKey(k)
  \/ \E d \in {AuthStep} : AuthTick(d)

AuthSpec == Init /\ [][AuthNext]_vars

\* ----------------------------------------------------------- middleware
\* Requests of the clients arrive at times on a grid of GateStep ms up to
\* GateHorizon; the second client sends at most MaxOtherRequests requests a
\* window.  API_RATE_LIMIT_BASIC is not set in the environment.
GateStep == 30000
GateHorizon == 150000

defaultRateLimit ==
  [windowMs |-> 60000, maxRequests |-> 100,
   skipSuccessfulRequests |-> FALSE, skipFailedRequests |-> FALSE]

apiRateLimit ==
  [windowMs |-> 60000, maxRequests |-> 60,
   skipSuccessfulRequests |-> FALSE, skipFailedRequests |-> TRUE]

Pathnames == {"/_next/static/app.js", "/api/openapi.json",
              "/api/quotes", "/api/swaps"}
Methods == {"GET", "OPTIONS"}

\* pathname.startsWith('/api/'), pathname.startsWith('/_next/'),
\* pathname.includes('.'), pathname.startsWith('/api/swaps') over Pathnames
StartsWithApi(p) == p \in {"/api/openapi.json", "/api/quotes", "/api/swaps"}
StartsWithNext(p) == p = "/_next/static/app.js"
IncludesDot(p) == p \in {"/_next/static/app.js", "/api/openapi.json"}
IsSensitive(p) == p = "/api/swaps"

Request(id, p, m) == [identifier |-> id, pathname |-> p, method |-> m]

\* Math.ceil(a / b) for b > 0
Ceil(a, b) == -((-a) \div b)

ClientData(n, t) == [count |-> n, resetTime |-> t]

\* checkRateLimit(identifier, config) of the middleware, for the stored
\* record cd of the identifier: the result, and the record stored afterwards
middlewareCheckRateLimit(cd, config, t) ==
  LET windowStart == t - config.windowMs
      stale == IF cd = None THEN TRUE ELSE cd.resetTime < windowStart
      clientData == IF stale THEN ClientData(0, t + config.windowMs) ELSE cd
      remaining == IF config.maxRequests - clientData.count > 0
                   THEN config.maxRequests - clientData.count ELSE 0
      allowed == clientData.count < config.maxRequests
  IN [allowed |-> allowed,
      remaining |-> IF allowed THEN remaining - 1 ELSE remaining,
      resetTime |-> clientData.resetTime,
      stored |-> IF allowed
                 THEN ClientData(clientData.count + 1, clientData.resetTime)
                 ELSE cd]

shouldSkipRateLimit(config) ==
  IF config.skipSuccessfulRequests \/ config.skipFailedRequests
  THEN FALSE
  ELSE FALSE

rateLimitConfig(p) ==
  IF StartsWithApi(p)
  THEN IF IsSensitive(p)
       THEN [apiRateLimit EXCEPT !.maxRequests = apiRateLimit.maxRequests \div 2]
       ELSE apiRateLimit
  ELSE defaultRateLimit

RateLimitHeaders(config, check) ==
  ("X-RateLimit-Limit" :> config.maxRequests)
  @@ ("X-RateLimit-Remaining" :> check.remaining)
  @@ ("X-RateLimit-Reset" :> Ceil(check.resetTime, 1000))

CorsHeaders ==
  {"Access-Control-Allow-Origin", "Access-Control-Allow-Methods",
   "Access-Control-Allow-Headers"}
SecurityHeaders ==
  {"X-Content-Type-Options", "X-Frame-Options", "X-XSS-Protection",
   "Referrer-Policy", "Permissions-Policy", "Content-Security-Policy"}

\* NextResponse.next() with the given headers: the request goes on to its
\* route; NextResponse.json(..., {status, headers}) and
\* new NextResponse(null, {status}) answer it
NextResponseNext(req, headers) ==
  [request |-> req, kind |-> "next", status |-> 200, headers |-> headers]
NextResponseAnswer(req, status, headers) ==
  [request |-> req, kind |-> "answer", status |-> status, headers |-> headers]

StoredCount(id) ==
  IF rateLimitStore[id] = None THEN 0 ELSE rateLimitStore[id].count

middleware(id, p, m) ==
  LET req == Request(id, p, m)
      config == rateLimitConfig(p)
      check == middlewareCheckRateLimit(rateLimitStore[id], config, now)
  IN /\ id = "10.0.0.2-curl" => StoredCount(id) < MaxOtherRequests
     /\ IF StartsWithNext(p) \/ ~StartsWithApi(p) \/ IncludesDot(p)
        THEN /\ response' = NextResponseNext(req, << >>)
             /\ UNCHANGED rateLimitStore
        ELSE IF ~shouldSkipRateLimit(config)
        THEN /\ rateLimitStore' = [rateLimitStore EXCEPT ![id] = check.stored]
             /\ response' =
                  IF ~check.allowed
                  THEN NextResponseAnswer(req, 429,
                         ("Retry-After" :> Ceil(check.resetTime - now, 1000))
                         @@ RateLimitHeaders(config, check))
                  ELSE NextResponseNext(req, RateLimitHeaders(config, check))
        ELSE /\ UNCHANGED rateLimitStore
             /\ response' =
                  IF m = "OPTIONS"
                  THEN NextResponseAnswer(req, 200, << >>)
                  ELSE NextResponseNext(req,
                         [h \in CorsHeaders \cup SecurityHeaders |-> "set"])
     /\ UNCHANGED << now, quoteVars, formVars, authVars >>

GateTick(d) ==
  /\ now + d <= GateHorizon
  /\ now' = now + d
  /\ UNCHANGED << quoteVars, appVars >>

GateNext ==
  \/ \E id \in Clients, p \in Pathnames, m \in Methods : middleware(id, p, m)
  \/ \E d \in {GateStep} : GateTick(d)

GateSpec == Init /\ [][GateNext]_vars

\* ================================================================ claims
\* Reading of the outcome history.
IsOk(x) == x.kind = "ok"
NoOk(round) == \A i \in 1..Len(round) : ~IsOk(round[i])
SomeOk(round) == \E i \in 1..Len(round) : IsOk(round[i])

RECURSIVE OkQuotes(_)
OkQuotes(round) ==
  IF round = <<>> THEN <<>>
  ELSE IF IsOk(Head(round)) THEN <<Head(round).quote>> \o OkQuotes(Tail(round))
  ELSE OkQuotes(Tail(round))

Complete(round) == Len(round) = NumAggregators
ValidForm(f) == f.complete /\ f.amount # <<>>

\* The entry is usable at time t in the sense of the specification: younger
\* than the TTL and not yet at its validUntil.
Fresh(e, t) == t < e.timestamp + CACHE_DURATION /\ t < e.quote.validUntil

\* This step enters QuoteService.getQuote with valid parameters, directly, or
\* from getOptimalQuote for a same-chain request or after the cross-chain
\* round failed.
EntersGetQuote(c) ==
  /\ ValidForm(form'[c])
  /\ \/ pc[c] = "idle" /\ pc'[c] \in {"dex", "done"}
     \/ /\ pc[c] = "bridge"
        /\ Len(bridgeOut'[c]) = NumBridges
        /\ NoOk(bridgeOut'[c])

\* C1: getQuote runs at most 3 pool rounds; when every provider failed in
\* rounds 1 and 2 and some provider succeeded in round 3, getQuote has
\* returned a quote of round 3 (the one selected from that round's
\* candidates) after exactly 2 backoff delays, of 1000 ms and 2000 ms.
C1_RetryThenSuccess ==
  \A c \in Calls :
    /\ Len(dexOut[c]) <= 3
    /\ ( /\ Len(dexOut[c]) = 3
         /\ Complete(dexOut[c][1]) /\ NoOk(dexOut[c][1])
         /\ Complete(dexOut[c][2]) /\ NoOk(dexOut[c][2])
         /\ Complete(dexOut[c][3]) /\ SomeOk(dexOut[c][3]) )
       => /\ pc[c] = "done"
          /\ result[c].type = "quote"
          /\ \E i \in 1..NumAggregators :
               /\ IsOk(dexOut[c][3][i])
               /\ dexOut[c][3][i].quote = result[c].quote
          /\ result[c].quote = BestDexQuote(OkQuotes(dexOut[c][3]))
          /\ delays[c] = <<1000, 2000>>

C1_Witness ==
  \E c \in Calls :
    /\ pc[c] = "done" /\ result[c].type = "quote"
    /\ Len(dexOut[c]) = 3 /\ NoOk(dexOut[c][1]) /\ NoOk(dexOut[c][2])
    /\ IsOk(dexOut[c][3][2]) /\ ~IsOk(dexOut[c][3][1])

\* C2: when every provider failed in all 3 rounds, getQuote has failed with
\* the failure of the third (last) round, after exactly 3 rounds and exactly
\* the two backoff waits that precede rounds 2 and 3: no wait follows the
\* third round and there is no fourth round.
C2_RetryExhaustion ==
  \A c \in Calls :
    /\ Len(dexOut[c]) <= 3
    /\ ( /\ Len(dexOut[c]) = 3
         /\ \A r \in 1..3 : Complete(dexOut[c][r]) /\ NoOk(dexOut[c][r]) )
       => /\ pc[c] = "done"
          /\ result[c] = Thrown(AllDexFailed(3))
          /\ lastError[c] = AllDexFailed(3)
          /\ delays[c] = <<1000, 2000>>
          /\ dexCalls[c] = 3 * NumAggregators

C2_Witness ==
  \E c \in Calls :
    /\ pc[c] = "done" /\ result[c].type = "error"
    /\ Len(dexOut[c]) = 3
    /\ \A r \in 1..3 : Complete(dexOut[c][r]) /\ NoOk(dexOut[c][r])
    /\ dexOut[c][3][3].kind = "timeout"

\* C3 (as claimed): a cache read at time t of an entry inserted at t0 is a
\* hit exactly when t < t0 + 30 s and t < validUntil, and a miss at every
\* t >= min(t0 + 30 s, validUntil), the boundary instants included.
C3_CacheTtlAsClaimed ==
  [][ \A c \in Calls :
        LET h == requestHash(form'[c])
        IN (EntersGetQuote(c) /\ cache[h] # NoEntry)
             => (fromCache'[c] <=> Fresh(cache[h], now)) ]_vars

\* C4 (as claimed): every quote QuoteService.getQuote returns, from the cache
\* or freshly fetched, is returned at a time earlier than its validUntil.
C4_ReturnedQuoteUsableAsClaimed ==
  \A c \in Calls :
    (pc[c] = "done" /\ result[c].type = "quote" /\ result[c].quote.pool = "dex")
      => now < result[c].quote.validUntil

\* C5: when getQuote finds a usable entry under the request's fingerprint it
\* returns that entry's quote in the same step: no DEX provider is invoked,
\* no backoff delay is taken and the cache is left as it was.
C5_CacheHitReturnsImmediately ==
  [][ \A c \in Calls :
        LET h == requestHash(form'[c])
        IN (EntersGetQuote(c) /\ cache[h] # NoEntry /\ Fresh(cache[h], now))
             => /\ pc'[c] = "done"
                /\ result'[c] = Returned(cache[h].quote)
                /\ dexCalls'[c] = 0
                /\ dexOut'[c] = <<>>
                /\ delays'[c] = <<>>
                /\ now' = now
                /\ cache' = cache ]_vars

C5_Witness ==
  \E c \in Calls :
    /\ pc[c] = "done" /\ fromCache[c] /\ result[c].type = "quote"
    /\ dexCalls[c] = 0

\* C6: the step in which the first round with a successful provider ends
\* stores the selected quote under the request's fingerprint with the current
\* time, returns that same quote and starts no further round; and a getQuote
\* for a request with that fingerprint, entered while the entry is usable,
\* returns the stored quote.
C6_StoreOnFirstSuccess ==
  [][ \A c \in Calls :
        /\ ( /\ pc[c] = "dex"
             /\ Complete(dexOut'[c][Len(dexOut'[c])])
             /\ SomeOk(dexOut'[c][Len(dexOut'[c])]) )
           => LET h == requestHash(form[c])
                  q == BestDexQuote(OkQuotes(dexOut'[c][Len(dexOut'[c])]))
              IN /\ pc'[c] = "done"
                 /\ result'[c] = Returned(q)
                 /\ cache'[h] = [type |-> "entry", quote |-> q, timestamp |-> now]
                 /\ \A k \in Hashes \ {h} : cache'[k] = cache[k]
                 /\ Len(dexOut'[c]) = Len(dexOut[c])
                 /\ dexCalls'[c] = dexCalls[c]
        /\ LET h == requestHash(form'[c])
           IN (EntersGetQuote(c) /\ cache[h] # NoEntry /\ Fresh(cache[h], now))
                => result'[c] = Returned(cache[h].quote) ]_vars

\* A getQuote answered from the cache later than the entry was stored.
C6_Witness ==
  \E c \in Calls :
    /\ pc[c] = "done" /\ fromCache[c] /\ result[c].type = "quote"
    /\ LET e == cache[requestHash(form[c])]
       IN e # NoEntry /\ e.quote = result[c].quote /\ now > e.timestamp

\* The cross-chain round of the call is over and its quote was not returned.
BridgeRoundThrew(c) ==
  /\ Len(bridgeOut[c]) = NumBridges
  /\ ~(pc[c] = "done" /\ result[c].type = "quote"
         /\ result[c].quote.pool = "bridge")

\* C7: in a pool round the candidates are exactly the quotes of the providers
\* that succeeded, a failed provider (timeout or error status) does not end
\* the round (the round is over only when all providers were invoked), and
\* the round fails if and only if no provider returned a quote.
C7_PartialFailureTolerance ==
  \A c \in Calls :
    /\ pc[c] = "dex" =>
         /\ quotes[c] = OkQuotes(dexOut[c][Len(dexOut[c])])
         /\ Len(dexOut[c][Len(dexOut[c])]) = idx[c] - 1
    /\ (dexOut[c] # <<>> /\ pc[c] # "dex") =>
         LET round == dexOut[c][Len(dexOut[c])]
         IN /\ Complete(round)
            /\ quotes[c] = OkQuotes(round)
            /\ NoOk(round) <=> lastError[c] = AllDexFailed(Len(dexOut[c]))
            /\ SomeOk(round) <=> (pc[c] = "done" /\ result[c].type = "quote")
    /\ pc[c] = "bridge" =>
         /\ quotes[c] = OkQuotes(bridgeOut[c])
         /\ Len(bridgeOut[c]) = idx[c] - 1
    /\ (bridgeOut[c] # <<>> /\ pc[c] # "bridge") =>
         /\ Len(bridgeOut[c]) = NumBridges
         /\ NoOk(bridgeOut[c]) <=> BridgeRoundThrew(c)
         /\ SomeOk(bridgeOut[c]) =>
              /\ pc[c] = "done"
              /\ quotes[c] = OkQuotes(bridgeOut[c])
              /\ Len(quotes[c]) = Cardinality({ i \in 1..NumBridges : IsOk(bridgeOut[c][i]) })

\* 2 of 3 providers failed (a timeout and an error status), one succeeded:
\* one candidate and a returned quote.
C7_Witness ==
  \E c \in Calls :
    /\ pc[c] = "done" /\ result[c].type = "quote" /\ ~fromCache[c]
    /\ dexOut[c] # <<>>
    /\ LET round == dexOut[c][Len(dexOut[c])]
       IN /\ round[1].kind = "timeout" /\ round[2].kind = "ok"
          /\ round[3].kind = "status"
          /\ Len(quotes[c]) = 1

\* C8 (as claimed): while a pool round is waiting for a provider, the calls
\* to all providers of the pool have been started.
C8_AllProvidersStartedAsClaimed ==
  \A c \in Calls :
    /\ pc[c] = "dex" => idx[c] = NumAggregators
    /\ pc[c] = "bridge" => idx[c] = NumBridges

\* Comparison of two amounts as the integers they denote.
ExactGe(a, b) == a.hi > b.hi \/ (a.hi = b.hi /\ a.lo >= b.lo)

\* toAmount - gasEstimate as an integer.
ExactNet(q) == Amt(q.toAmount.hi - q.gasEstimate.hi, q.toAmount.lo - q.gasEstimate.lo)

\* C9 (as claimed): the quote getBestQuote selects from a non-empty list of
\* DEX quotes is one of them and its toAmount is greater than or equal to
\* the toAmount of every candidate.
C9_DexSelectsMaxToAmountAsClaimed ==
  \A c \in Calls :
    (pc[c] = "done" /\ result[c].type = "quote" /\ ~fromCache[c]
       /\ result[c].quote.pool = "dex")
      => /\ \E i \in 1..Len(quotes[c]) : quotes[c][i] = result[c].quote
         /\ \A i \in 1..Len(quotes[c]) :
              ExactGe(result[c].quote.toAmount, quotes[c][i].toAmount)

\* C10 (as claimed): the quote getCrossChainQuote selects from a non-empty
\* list of bridge quotes is one of them and its toAmount - gasEstimate is
\* greater than or equal to that of every candidate.
C10_BridgeSelectsMaxNetAsClaimed ==
  \A c \in Calls :
    (pc[c] = "done" /\ result[c].type = "quote"
       /\ result[c].quote.pool = "bridge")
      => /\ \E i \in 1..Len(quotes[c]) : quotes[c][i] = result[c].quote
         /\ \A i \in 1..Len(quotes[c]) :
              ExactGe(ExactNet(result[c].quote), ExactNet(quotes[c][i]))

\* The orders in which the candidates qs can be collected.
Orders(qs) ==
  { [i \in 1..Len(qs) |-> qs[p[i]]] :
      p \in { f \in [1..Len(qs) -> 1..Len(qs)] :
                \A i, j \in 1..Len(qs) : f[i] = f[j] => i = j } }

\* C11 (as claimed): the selected quote depends only on the set of
\* candidates: collected in any other order, the same candidates give the
\* same selected quote, for the DEX and for the bridge reducer, also when two
\* distinct candidates tie on the compared amount.
C11_SelectionOrderIndependentAsClaimed ==
  \A c \in Calls :
    (pc[c] = "done" /\ result[c].type = "quote" /\ ~fromCache[c])
      => \A qs \in Orders(quotes[c]) :
           IF result[c].quote.pool = "dex"
           THEN BestDexQuote(qs) = result[c].quote
           ELSE BestBridgeQuote(qs) = result[c].quote

\* The call c is one of a complete request between two different chains.
CrossChainCall(c) == form[c].complete /\ form[c].fromChain # form[c].toChain
SameChainCall(c) == form[c].complete /\ form[c].fromChain = form[c].toChain
BridgeRoundOver(c) == Len(bridgeOut[c]) = NumBridges

\* C12: a getOptimalQuote call whose two chains are the same enters
\* QuoteService.getQuote directly: its entry step is exactly the entry of
\* getQuote on the same form data, and as long as the call lasts no bridge
\* provider has been called and no cross-chain round is running, so the
\* call's result is the one getQuote produces.
C12_SameChainGoesToQuoteService ==
  [][\A c \in Calls :
       /\ (pc[c] = "idle" /\ pc'[c] # "idle" /\ form'[c].complete
             /\ form'[c].fromChain = form'[c].toChain)
            => /\ getQuote(c, form'[c])
               /\ pc'[c] \in {"dex", "done"}
       /\ (form'[c].complete /\ form'[c].fromChain = form'[c].toChain)
            => /\ bridgeCalls'[c] = 0
               /\ bridgeOut'[c] = <<>>
               /\ pc'[c] # "bridge"]_vars

C12_Witness ==
  \E c \in Calls :
    /\ pc[c] = "done" /\ SameChainCall(c)
    /\ result[c].type = "quote" /\ dexCalls[c] = NumAggregators
    /\ bridgeCalls[c] = 0

\* C13: a getOptimalQuote call between two different chains starts with the
\* cross-chain router (first bridge called, no DEX provider called, cache
\* not read or written), and when the cross-chain round ends with a quote the
\* call ends there with the selected bridge quote: no DEX provider was
\* called, the cache is as it was and the answer is not a cached one.
C13_BridgeQuoteIsTerminal ==
  [][\A c \in Calls :
       /\ (pc[c] = "idle" /\ pc'[c] # "idle" /\ form'[c].complete
             /\ form'[c].fromChain # form'[c].toChain)
            => /\ pc'[c] = "bridge"
               /\ bridgeCalls'[c] = 1
               /\ dexCalls'[c] = 0
               /\ cache' = cache
       /\ pc[c] = "bridge"
            => /\ dexCalls[c] = 0 /\ dexOut[c] = <<>>
               /\ pc'[c] = "bridge" => cache' = cache
       /\ (pc[c] = "bridge" /\ pc'[c] # "bridge" /\ SomeOk(bridgeOut'[c]))
            => /\ pc'[c] = "done"
               /\ result'[c] = Returned(BestBridgeQuote(OkQuotes(bridgeOut'[c])))
               /\ cache' = cache
               /\ dexCalls'[c] = 0
               /\ dexOut'[c] = <<>>
               /\ ~fromCache'[c]]_vars

C13_Witness ==
  \E c \in Calls :
    /\ pc[c] = "done" /\ CrossChainCall(c)
    /\ BridgeRoundOver(c) /\ SomeOk(bridgeOut[c])
    /\ result[c].type = "quote" /\ result[c].quote.pool = "bridge"
    /\ \E h \in Hashes : cache[h] # NoEntry

\* C14: when every bridge of the cross-chain round failed, the call falls
\* through to QuoteService.getQuote on the same form data and ends as that
\* ends: with the DEX quote selected in the last round (or a cached quote)
\* when getQuote succeeds, and with an error only when getQuote threw, that
\* error being getQuote's own and never the cross-chain one.
C14_CrossChainFailureFallsBack ==
  [][\A c \in Calls :
       /\ (pc[c] = "bridge" /\ pc'[c] # "bridge" /\ NoOk(bridgeOut'[c]))
            => /\ getQuote(c, form[c])
               /\ form'[c] = form[c]
       /\ (pc'[c] = "done" /\ form'[c].complete
             /\ form'[c].fromChain # form'[c].toChain
             /\ Len(bridgeOut'[c]) = NumBridges /\ NoOk(bridgeOut'[c]))
            => /\ result'[c] # Thrown(AllBridgesFailed)
               /\ result'[c].type \in {"quote", "error"}
               /\ result'[c].type = "quote"
                    => /\ result'[c].quote.pool = "dex"
                       /\ ~fromCache'[c]
                            => result'[c] = Returned(BestDexQuote(
                                 OkQuotes(dexOut'[c][Len(dexOut'[c])])))
               /\ result'[c].type = "error"
                    => \/ /\ form'[c].amount = <<>>
                          /\ result'[c] = Thrown(InvalidParams)
                       \/ /\ Len(dexOut'[c]) = MAX_RETRIES
                          /\ \A n \in 1..MAX_RETRIES : NoOk(dexOut'[c][n])
                          /\ result'[c] = Thrown(AllDexFailed(MAX_RETRIES))
               /\ (dexOut'[c] # <<>> /\ SomeOk(dexOut'[c][Len(dexOut'[c])]))
                    => result'[c].type = "quote"]_vars

C14_Witness ==
  \E c \in Calls :
    /\ pc[c] = "done" /\ CrossChainCall(c)
    /\ BridgeRoundOver(c) /\ NoOk(bridgeOut[c])
    /\ result[c].type = "quote" /\ result[c].quote.pool = "dex"
    /\ ~fromCache[c]

\* What a validator of form data looks at.
SameToken(f) ==
  f.fromToken.address = f.toToken.address /\ f.fromChain = f.toChain

\* s is a decimal numeral of a positive number
IsPositiveDecimal(s) ==
  /\ \A i \in 1..Len(s) : IsDigit(s[i]) \/ s[i] = 46
  /\ Cardinality({ i \in 1..Len(s) : s[i] = 46 }) <= 1
  /\ \E i \in 1..Len(s) : IsDigit(s[i]) /\ s[i] # 48

\* 0.1 % to 50 %, in hundredths of a percent
SlippageInRange(p) == 10 <= p /\ p <= 5000

\* The call c has been turned down before anything was asked of a provider
\* or of the cache.
TurnedDown(c) ==
  /\ pc[c] = "done"
  /\ result[c].type = "error"
  /\ dexCalls[c] = 0 /\ bridgeCalls[c] = 0
  /\ dexOut[c] = <<>> /\ bridgeOut[c] = <<>>
  /\ delays[c] = <<>>
  /\ ~fromCache[c]

\* C15 (as claimed): a request whose two tokens have the same address on the
\* same chain is turned down with a validation failure: the call ends with
\* an error, no provider was called and no retry delay was taken.
C15_SameTokenRejectedAsClaimed ==
  \A c \in Calls :
    (pc[c] # "idle" /\ form[c].complete /\ SameToken(form[c]))
      => TurnedDown(c)

\* C16 (as claimed): a request whose amount is not a positive number, or
\* whose slippage tolerance lies outside 0.1 % .. 50 %, is turned down by
\* getQuote with a validation failure: the call ends with an error, the
\* cache was not consulted, no provider was called, no retry was made.
C16_BadAmountOrSlippageRejectedAsClaimed ==
  \A c \in Calls :
    (pc[c] # "idle" /\ form[c].complete /\ ~SameToken(form[c])
       /\ (~IsPositiveDecimal(form[c].amount)
             \/ ~SlippageInRange(form[c].slippageTolerance)))
      => TurnedDown(c)

\* Reading of an amount string: the digits before and after its point.
DotAt(s) ==
  IF \E i \in 1..Len(s) : s[i] = 46
  THEN CHOOSE i \in 1..Len(s) : s[i] = 46
  ELSE Len(s) + 1
IntegerDigits(s) == SubSeq(s, 1, DotAt(s) - 1)
FractionDigits(s) == SubSeq(s, DotAt(s) + 1, Len(s))
IsDecimal(s) ==
  /\ \A i \in 1..Len(s) : IsDigit(s[i]) \/ s[i] = 46
  /\ Cardinality({ i \in 1..Len(s) : s[i] = 46 }) <= 1

\* The integer digits of s followed by its first d fraction digits, a
\* missing fraction digit being 0.
Truncated(s, d) ==
  [ i \in 1..(Len(IntegerDigits(s)) + d) |->
      IF i <= Len(IntegerDigits(s)) THEN IntegerDigits(s)[i]
      ELSE IF i - Len(IntegerDigits(s)) <= Len(FractionDigits(s))
           THEN FractionDigits(s)[i - Len(IntegerDigits(s))]
           ELSE 48 ]

\* Two digit strings denote the same integer.
SameInteger(a, b) ==
  LET n == IF Len(a) >= Len(b) THEN Len(a) ELSE Len(b)
      Wide(x) == [i \in 1..n |-> IF i <= n - Len(x) THEN 48 ELSE x[i - (n - Len(x))]]
  IN Wide(a) = Wide(b)

\* C17: the normalized amount of a decimal string is its integer digits
\* followed by exactly its first d fraction digits, zeros filling a shorter
\* fraction; the digits beyond d are dropped and nothing is rounded.
\* convertToWei returns that digit string and parseUnits the integer it
\* denotes; "1.23456789" at 6 decimals gives "1234567".
C17_AmountTruncatedNotRounded ==
  \A c \in Calls :
    LET s == form[c].amount
        d == form[c].fromToken.decimals
    IN /\ (pc[c] = "done" /\ IsDecimal(s))
            => /\ result[c].value = Truncated(s, d)
               /\ Len(result[c].value) = Len(IntegerDigits(s)) + d
               /\ (s = <<49, 46, 50, 51, 52, 53, 54, 55, 56, 57>> /\ d = 6)
                    => result[c].value = <<49, 50, 51, 52, 53, 54, 55>>
       /\ (pc[c] = "parsed" /\ IsDecimal(s))
            => SameInteger(result[c].value, Truncated(s, d))

\* a fraction longer than the decimals whose first dropped digit is a 5
C17_Witness ==
  \E c \in Calls :
    LET s == form[c].amount
        d == form[c].fromToken.decimals
    IN /\ pc[c] = "done" /\ IsDecimal(s)
       /\ d > 0 /\ Len(FractionDigits(s)) > d
       /\ FractionDigits(s)[d + 1] = 53
       /\ result[c].value = Truncated(s, d)

\* The fields of the request key in which two requests differ.
KeyDifference(r, q) ==
  { k \in {"fromToken", "toToken", "amount", "fromChainId", "toChainId",
           "slippage"} :
      IF k \in {"fromToken", "toToken"} THEN r[k].address # q[k].address
      ELSE r[k] # q[k] }

\* C18 (as claimed): the fingerprint is a function of the normalized
\* request, and two requests that differ in any one field (amount,
\* slippage, either chain id, either token address) have different
\* fingerprints.
C18_FingerprintDistinctAsClaimed ==
  \A c \in Calls :
    pc[c] = "done"
      => \A g \in KeyForms :
           LET d == KeyDifference(QuoteRequest(form[c]), QuoteRequest(g))
           IN /\ d = {} => requestHash(g) = result[c].value
              /\ Cardinality(d) = 1 => requestHash(g) # result[c].value

\* String.prototype.toLowerCase on the letters A to Z
LowerCase(s) ==
  [i \in 1..Len(s) |-> IF 65 <= s[i] /\ s[i] <= 90 THEN s[i] + 32 ELSE s[i]]

\* r and q are the same request once the token addresses are lower-cased.
SameUpToCase(r, q) ==
  /\ LowerCase(r.fromToken.address) = LowerCase(q.fromToken.address)
  /\ LowerCase(r.toToken.address) = LowerCase(q.toToken.address)
  /\ r.amount = q.amount
  /\ r.fromChainId = q.fromChainId /\ r.toChainId = q.toChainId
  /\ r.slippage = q.slippage

\* C19 (as claimed): two requests that differ only in the letter case of
\* their token addresses have the same fingerprint, hence the same cache
\* entry.
C19_FingerprintCaseNormalizedAsClaimed ==
  \A c \in Calls :
    pc[c] = "done"
      => \A g \in KeyForms :
           SameUpToCase(QuoteRequest(form[c]), QuoteRequest(g))
             => requestHash(g) = result[c].value

\* The outcome that the step has just recorded in the running round, if any.
Last(s) == s[Len(s)]
NewDexOutcome(c) ==
  /\ pc[c] = "dex" /\ dexOut'[c] # dexOut[c]
  /\ Len(dexOut'[c]) = Len(dexOut[c])
NewBridgeOutcome(c) ==
  /\ pc[c] = "bridge" /\ bridgeOut'[c] # bridgeOut[c]

\* C20: every quote that a provider client produces, DEX or bridge, has
\* validUntil equal to the time of its creation plus exactly 30 000 ms,
\* whatever the upstream answered, and it is this quote that joins the
\* round's quotes.
C20_QuoteValidFor30Seconds ==
  [][\A c \in Calls :
       /\ (NewDexOutcome(c) /\ IsOk(Last(Last(dexOut'[c]))))
            => /\ Last(Last(dexOut'[c])).quote.validUntil = now + 30000
               /\ Last(Last(dexOut'[c])).quote.pool = "dex"
               /\ Last(quotes'[c]) = Last(Last(dexOut'[c])).quote
               /\ \E r \in Responses :
                    /\ Last(quotes'[c]).toAmount = r.toAmount
                    /\ Last(quotes'[c]).gasEstimate = r.gasEstimate
       /\ (NewBridgeOutcome(c) /\ IsOk(Last(bridgeOut'[c])))
            => /\ Last(bridgeOut'[c]).quote.validUntil = now + 30000
               /\ Last(bridgeOut'[c]).quote.pool = "bridge"
               /\ Last(quotes'[c]) = Last(bridgeOut'[c]).quote]_vars

\* a DEX and a bridge quote created after time 0, still in the round
C20_Witness ==
  \E c \in Calls :
    /\ now > 0 /\ pc[c] \in {"dex", "bridge"}
    /\ quotes[c] # <<>>
    /\ Last(quotes[c]).validUntil = now + 30000
    /\ Last(quotes[c]).toAmount = Amt(0, 105)

\* The rounds of the call c in which the DEX provider i was called: those in
\* which its outcome is recorded and the one in which its call is in flight.
DexRoundsCalling(c, i) ==
  { n \in 1..Len(dexOut[c]) :
      \/ Len(dexOut[c][n]) >= i
      \/ n = Len(dexOut[c]) /\ pc[c] = "dex" /\ Len(dexOut[c][n]) + 1 = i }
BridgeCalled(c, i) ==
  Len(bridgeOut[c]) >= i \/ (pc[c] = "bridge" /\ Len(bridgeOut[c]) + 1 = i)

RECURSIVE SeqSum(_)
SeqSum(s) == IF s = <<>> THEN 0 ELSE Head(s) + SeqSum(Tail(s))

\* C21: only the retry loop of getQuote repeats anything.  A round holds at
\* most one outcome per registered provider and every provider call the
\* call has issued is the one call of a provider in a round: a getQuote
\* call issues at most 3 calls to each DEX provider, a getOptimalQuote call
\* at most one to each bridge provider.
C21_RetriesOnlyInQuoteService ==
  \A c \in Calls :
    LET DexCallsTo == [i \in 1..NumAggregators |->
                         Cardinality(DexRoundsCalling(c, i))]
        BridgeCallsTo == [i \in 1..NumBridges |->
                            IF BridgeCalled(c, i) THEN 1 ELSE 0]
    IN /\ Len(dexOut[c]) <= 3
       /\ \A n \in 1..Len(dexOut[c]) : Len(dexOut[c][n]) <= NumAggregators
       /\ Len(bridgeOut[c]) <= NumBridges
       /\ \A i \in 1..NumAggregators : DexCallsTo[i] <= 3
       /\ dexCalls[c] = SeqSum(DexCallsTo)
       /\ bridgeCalls[c] = SeqSum(BridgeCallsTo)
       /\ pc[c] = "dex" => idx[c] = Len(dexOut[c][Len(dexOut[c])]) + 1
       /\ pc[c] = "bridge" => idx[c] = Len(bridgeOut[c]) + 1

\* every bridge called once and every DEX provider three times
C21_Witness ==
  \E c \in Calls :
    /\ pc[c] = "done" /\ result[c].type = "error"
    /\ bridgeCalls[c] = NumBridges
    /\ dexCalls[c] = 3 * NumAggregators
    /\ \A n \in 1..3 : NoOk(dexOut[c][n])

\* What the two paths of a finished getMultipleQuotes call came to.
SameChainGave(c) ==
  fromCache[c] \/ (dexOut[c] # <<>> /\ SomeOk(Last(dexOut[c])))
CrossChainGave(c) == SomeOk(bridgeOut[c])

\* C22: getMultipleQuotes takes the same-chain path for every request and
\* the cross-chain path for every request between two chains, whatever the
\* same-chain path came to.  It returns the quote of each path that gave
\* one and throws only when neither did.
C22_PathsAttemptedIndependently ==
  \A c \in Calls :
    (pc[c] = "returned" /\ form[c].complete)
      => /\ isCrossChain(form[c]) => BridgeRoundOver(c)
         /\ ~isCrossChain(form[c]) => bridgeCalls[c] = 0
         /\ form[c].amount # <<>> => dexCalls[c] >= NumAggregators
         /\ (dexOut[c] # <<>> /\ ~SameChainGave(c))
              => /\ Len(dexOut[c]) = MAX_RETRIES
                 /\ \A n \in 1..MAX_RETRIES : Len(dexOut[c][n]) = NumAggregators
         /\ IF SameChainGave(c) \/ CrossChainGave(c)
            THEN /\ result[c].type = "quote"
                 /\ result[c].quote.type = "quotes"
                 /\ IF SameChainGave(c)
                    THEN result[c].quote.sameChain =
                           BestDexQuote(OkQuotes(Last(dexOut[c])))
                    ELSE result[c].quote.sameChain = None
                 /\ IF CrossChainGave(c)
                    THEN result[c].quote.crossChain =
                           BestBridgeQuote(OkQuotes(bridgeOut[c]))
                    ELSE result[c].quote.crossChain = None
            ELSE result[c] = Thrown(NoQuotes)

\* the same-chain path failed in all its rounds and the cross-chain quote is
\* returned
C22_Witness ==
  \E c \in Calls :
    /\ pc[c] = "returned" /\ CrossChainCall(c)
    /\ Len(dexOut[c]) = MAX_RETRIES /\ ~SameChainGave(c)
    /\ CrossChainGave(c)
    /\ result[c].type = "quote" /\ result[c].quote.sameChain = None
    /\ result[c].quote.crossChain # None

\* C23 (as claimed): in the results of getMultipleQuotes, recommended is one
\* of the sameChain and crossChain quotes returned, and with both present
\* its toAmount - gasEstimate is not below that of the other.
C23_RecommendedHasHigherNetAsClaimed ==
  \A c \in Calls :
    (pc[c] = "returned" /\ result[c].type = "quote")
      => LET r == result[c].quote
         IN /\ r.recommended \in {r.sameChain, r.crossChain} \ {None}
            /\ (r.sameChain # None /\ r.crossChain # None)
                 => /\ ExactGe(ExactNet(r.recommended), ExactNet(r.sameChain))
                    /\ ExactGe(ExactNet(r.recommended), ExactNet(r.crossChain))

\* The entry e is dead at time t: inserted more than 30 s ago, or holding a
\* quote whose validUntil lies before t.
Dead(e, t) == t - e.timestamp > 30000 \/ e.quote.validUntil < t

\* C24: a read of the cache (the lookup at the entry of getQuote) that finds
\* the entry of its fingerprint dead removes that entry and reports a miss,
\* so that the call goes on to the providers; it leaves a live entry of its
\* fingerprint and the entry of every other fingerprint as they were; and an
\* entry disappears in no step other than a read of its own key (the cache
\* never grows beyond its capacity here and clearCache is not called).
C24_LazyExpiryOnReadOnly ==
  [][ /\ \A c \in Calls :
           EntersGetQuote(c)
             => LET h == requestHash(form'[c])
                IN /\ (cache[h] # NoEntry /\ Dead(cache[h], now))
                        => /\ cache'[h] = NoEntry
                           /\ ~fromCache'[c]
                           /\ pc'[c] = "dex"
                   /\ (cache[h] # NoEntry /\ ~Dead(cache[h], now))
                        => cache'[h] = cache[h]
                   /\ \A k \in Hashes \ {h} : cache'[k] = cache[k]
      /\ \A k \in Hashes :
           (cache[k] # NoEntry /\ cache'[k] = NoEntry)
             => \E c \in Calls :
                  EntersGetQuote(c) /\ requestHash(form'[c]) = k ]_vars

\* a call has just read the cache, at an instant when the entry of another
\* fingerprint is dead, and that entry is still there
C24_Witness ==
  \E c \in Calls :
    /\ pc[c] = "dex" /\ attempt[c] = 1 /\ idx[c] = 1 /\ startedAt[c] = now
    /\ bridgeCalls[c] = 0
    /\ cache[requestHash(form[c])] = NoEntry
    /\ \E k \in Hashes \ {requestHash(form[c])} :
         cache[k] # NoEntry /\ Dead(cache[k], now)

\* C25: a put that leaves more than 100 entries is followed by the removal
\* of every dead entry and of no other entry, the entry just put staying;
\* a put that leaves 100 entries or fewer changes nothing but the entry put.
\* Which entries go depends on their age and validity only.
C25_CapacitySweep ==
  [][ \A c \in Calls :
        form'[c] # form[c]
          => \E h \in {requestHash(form'[c])} :
             \E set \in {[cache EXCEPT ![h] = cache'[h]]} :
                /\ cache'[h] # NoEntry
                /\ cache'[h].timestamp = now
                /\ cache'[h].quote = result'[c].quote
                /\ IF CacheSize(set) > 100
                   THEN \A k \in DOMAIN cache :
                          IF set[k] # NoEntry /\ Dead(set[k], now)
                          THEN cache'[k] = NoEntry
                          ELSE cache'[k] = set[k]
                   ELSE cache' = set ]_vars

\* a put has swept the dead entries of the first requests out of a cache of
\* more than 100 entries
C25_Witness ==
  \E c \in Calls :
    /\ RequestNo(form[c]) > 100
    /\ now > 0
    /\ cache[requestHash(form[c])] # NoEntry
    /\ cache[requestHash(form[c])].timestamp = now
    /\ cache[requestHash(LoadForm(1))] = NoEntry
    /\ CacheSize(cache) > 1

\* C26 (as claimed): the number of entries in the cache never exceeds the
\* bound given by its capacity of 100 entries (101 while a put is being
\* followed by its sweep).
C26_CacheSizeBoundedAsClaimed ==
  CacheSize(cache) <= CACHE_CAPACITY + 1

\* C27 (as claimed): executeSwap called at a time that is not earlier than
\* the quote's validUntil fails at once with the expired-quote failure:
\* nothing is prepared, no gas is estimated or relayed, nothing is submitted.
C27_ExpiredQuoteRejectedAsClaimed ==
  [][ \A c \in Calls :
        (pc[c] = "holding" /\ pc'[c] # "holding"
           /\ now >= quotes[c][1].validUntil)
          => /\ pc'[c] = "done"
             /\ result'[c] = Thrown(QuoteExpired) ]_vars

\* the call c fetched its quote from the providers and has returned it
Fetched(c) ==
  pc[c] = "done" /\ result[c].type = "quote" /\ ~fromCache[c]

\* C28: two getQuote calls on one fingerprint may both miss and both fetch.
\* Each of them, when it finishes, stores one whole entry under the
\* fingerprint, its own quote with its own insertion time, and changes no
\* other fingerprint's entry; so once both have finished the cache holds the
\* entry of the one that stored last. Between stores an entry changes only by
\* a lookup of its own fingerprint.
C28_LastStoreWins ==
  [][ /\ \A c \in Pair :
           (pc[c] = "dex" /\ pc'[c] = "done" /\ result'[c].type = "quote")
             => \E h \in {requestHash(form[c])} :
                  /\ cache' = [cache EXCEPT ![h] =
                                 [type |-> "entry", quote |-> result'[c].quote,
                                  timestamp |-> now]]
                  /\ \A d \in Pair \ {c} :
                       (Fetched(d) /\ requestHash(form[d]) = h)
                         => /\ cache'[h].quote = result'[c].quote
                            /\ cache'[h].timestamp = now
      /\ cache' # cache
           => \E c \in Pair :
                \/ pc[c] = "dex" /\ pc'[c] = "done"
                \/ /\ pc[c] = "idle" /\ pc'[c] # "idle"
                   /\ \A k \in DOMAIN cache :
                        cache'[k] # cache[k] => k = requestHash(form'[c]) ]_vars

\* Both calls missed, fetched different quotes for one fingerprint and have
\* finished; the first caller stored last, after time had passed.
C28_Witness ==
  /\ \A c \in Pair : Fetched(c) /\ dexCalls[c] >= NumAggregators
  /\ form[1] = form[2]
  /\ result[1].quote # result[2].quote
  /\ cache[requestHash(form[1])] # NoEntry
  /\ cache[requestHash(form[1])].quote = result[1].quote
  /\ cache[requestHash(form[1])].timestamp > 0

\* C29: a getOptimalQuote call that has started eventually completes, with a
\* quote or a failure, given that every provider call settles; on the way it
\* runs at most one cross-chain round, at most MAX_RETRIES same-chain rounds
\* and at most MAX_RETRIES - 1 backoff waits.
C29_GetOptimalQuoteTerminates ==
  /\ \A c \in Calls : (pc[c] # "idle") ~> (pc[c] = "done")
  /\ [](\A c \in Calls :
          /\ Len(bridgeOut[c]) <= NumBridges
          /\ bridgeCalls[c] <= NumBridges
          /\ Len(dexOut[c]) <= MAX_RETRIES
          /\ Len(delays[c]) <= MAX_RETRIES - 1)

\* The slowest call: the cross-chain round failed, then three same-chain
\* rounds failed with two backoff waits between them, and the call is over.
C29_Witness ==
  \E c \in Calls :
    /\ pc[c] = "done" /\ result[c].type = "error"
    /\ bridgeCalls[c] = NumBridges
    /\ Len(dexOut[c]) = MAX_RETRIES
    /\ Len(delays[c]) = MAX_RETRIES - 1
    /\ now > 2 * DEX_TIMEOUT

\* an integer written in digits
IsIntegerString(s) == s # <<>> /\ \A i \in 1..Len(s) : IsDigit(s[i])

\* C30 (as claimed): every query in flight to a provider carries the amount
\* as an integer string in the token's smallest unit; the amount sent to the
\* bridges is the convertToWei result that the aggregators are sent, never
\* the decimal string of the form.
C30_QueriesCarryWeiAsClaimed ==
  \A c \in Calls :
    /\ pc[c] = "dex" => IsIntegerString(QuoteRequest(form[c]).amount)
    /\ pc[c] = "bridge"
         => /\ IsIntegerString(BridgeRequest(form[c]).amount)
            /\ BridgeRequest(form[c]).amount = QuoteRequest(form[c]).amount

\* the call number i of the debounced function is followed by another call
\* less than wait ms later
Superseded(i, wait) ==
  i < Len(debounced) /\ debounced[i + 1].at - debounced[i].at < wait

\* the invocations of func that came from call number i
InvokedFor(i) == { j \in 1..Len(invoked) : invoked[j].no = i }

\* every invocation of func comes from a call that ends a burst, carries
\* that call's arguments and happens wait ms after it; no call reaches func
\* twice, and none that is superseded
OnlyBurstEndsInvoked(wait) ==
  /\ \A j \in 1..Len(invoked) :
       /\ invoked[j].no \in 1..Len(debounced)
       /\ invoked[j].args = debounced[invoked[j].no].args
       /\ invoked[j].at = debounced[invoked[j].no].at + wait
       /\ ~Superseded(invoked[j].no, wait)
  /\ \A i \in 1..Len(debounced) :
       /\ Cardinality(InvokedFor(i)) <= 1
       /\ Superseded(i, wait) => InvokedFor(i) = {}

\* C31 (as claimed): of a burst of calls, each less than wait ms after the
\* one before, only the last reaches func: func is invoked exactly once for
\* the burst, with the arguments of its last call, wait ms after that call;
\* a burst ends with a call that no call follows in less than wait ms.
C31_DebounceAsClaimed ==
  /\ OnlyBurstEndsInvoked(DEBOUNCE_WAIT)
  /\ \A i \in 1..Len(debounced) :
       (~Superseded(i, DEBOUNCE_WAIT)
          /\ now > debounced[i].at + DEBOUNCE_WAIT)
         => Cardinality(InvokedFor(i)) = 1

\* C31 (amended): as claimed, for a burst that is followed by more than
\* wait ms without a call; a call that arrives exactly wait ms after the
\* last call of a burst may come before the timer fires and then takes the
\* burst's place.
C31_DebounceLastCallOnly ==
  /\ OnlyBurstEndsInvoked(DEBOUNCE_WAIT)
  /\ \A i \in 1..Len(debounced) :
       (/\ now > debounced[i].at + DEBOUNCE_WAIT
        /\ i < Len(debounced)
             => debounced[i + 1].at > debounced[i].at + DEBOUNCE_WAIT)
         => Cardinality(InvokedFor(i)) = 1

\* A burst of three calls with different arguments has ended and func has
\* run for it.
C31_Witness ==
  /\ Len(debounced) >= 3
  /\ Superseded(1, DEBOUNCE_WAIT) /\ Superseded(2, DEBOUNCE_WAIT)
  /\ debounced[2].args # debounced[3].args
  /\ debounced[2].at > debounced[1].at
  /\ InvokedFor(3) # {}

\* the form data of the latest fetchQuote body that ran
LatestFetchData == invoked[Len(invoked)].args

QuoteIsFor(q, data) ==
  /\ q.fromToken = data.fromToken
  /\ q.toToken = data.toToken
  /\ q.fromAmount = data.amount

\* C32 (as claimed): a fetch that completes puts its quote on display only
\* if no newer fetchQuote body has run since it was issued, neither one that
\* started a newer fetch nor one that cleared the quote; the quote on display
\* is a quote for the latest form data a fetch was issued for.
C32_NewerRequestSupersedesAsClaimed ==
  [][ (displayedQuote' # displayedQuote /\ displayedQuote' # None)
        => QuoteIsFor(displayedQuote', LatestFetchData) ]_vars

\* C39 (as claimed): while a swap is in progress the status is 'pending'; a
\* reset timer of an earlier swap does not touch the status of a later one.
C39_PendingWhileSwappingAsClaimed ==
  isSwapping => swapStatus = "pending"

\* C33: every entry of the quote cache holds a quote made no later than the
\* entry was inserted: quote.validUntil <= timestamp + 30 s.  Hence an entry
\* whose quote passes the validUntil test of a lookup is no older than the
\* cache TTL.
C33_EntryQuoteNotNewerThanEntry ==
  \A h \in DOMAIN cache :
    cache[h] # NoEntry
      => /\ cache[h].quote.validUntil <= cache[h].timestamp + DEX_QUOTE_VALIDITY
         /\ ~(cache[h].quote.validUntil < now)
              => ~(now - cache[h].timestamp > CACHE_DURATION)

\* An entry whose quote was made before the entry was inserted and is still
\* valid, some time after the insertion.
C33_Witness ==
  \E h \in DOMAIN cache :
    /\ cache[h] # NoEntry
    /\ cache[h].quote.validUntil < cache[h].timestamp + DEX_QUOTE_VALIDITY
    /\ cache[h].quote.validUntil >= now
    /\ now > cache[h].timestamp

\* in this step the call c returns a quote it fetched from the providers
ReturnsFetchedQuote(c) ==
  /\ pc[c] # "done" /\ pc'[c] = "done"
  /\ result'[c].type = "quote" /\ ~fromCache'[c]

\* in this step the lookup of call c evicts the dead entry of its fingerprint
\* and nothing else
LookupEvictsDeadEntry(c) ==
  /\ EntersGetQuote(c)
  /\ \E h \in {requestHash(form'[c])} :
       /\ cache[h] # NoEntry /\ Dead(cache[h], now)
       /\ cache' = [cache EXCEPT ![h] = NoEntry]

\* C34: a getQuote call that fails writes nothing to the cache.  No step of
\* a call other than the return of a fetched quote changes the cache, but for
\* the lookup, which may evict the dead entry of the requested fingerprint;
\* the step that throws (missing parameters, or the third round failed)
\* leaves the cache as it is.
C34_FailedCallWritesNothing ==
  [][ /\ (\A c \in Calls : ~ReturnsFetchedQuote(c))
           => \/ cache' = cache
              \/ \E c \in Calls : LookupEvictsDeadEntry(c)
      /\ \A c \in Calls :
           (pc[c] # "done" /\ pc'[c] = "done" /\ result'[c].type = "error")
             => cache' = cache ]_vars

\* A call has failed after three rounds while the cache holds the entry of
\* another request.
C34_Witness ==
  \E c \in Calls :
    /\ pc[c] = "done"
    /\ result[c] = Thrown(AllDexFailed(MAX_RETRIES))
    /\ CacheSize(cache) > 0

\* C35 (as claimed): getCacheStats agrees with the lookup: size is the number
\* of entries, there is one report per entry, and an entry is reported valid
\* exactly when a getQuote for its fingerprint at the same instant would be
\* answered from the cache.
C35_StatsAgreeWithLookupAsClaimed ==
  /\ getCacheStats(cache, now).size = Cardinality(getCacheStats(cache, now).entries)
  /\ \A e \in getCacheStats(cache, now).entries :
       /\ cache[e.hash] # NoEntry
       /\ e.valid <=> getCachedQuote(cache, e.hash, now).hit

\* the request counted by this step for key k opens a new window
OpensWindow(k) ==
  IF rateLimits[k] = None THEN TRUE ELSE now > rateLimits[k].resetTime

\* C36: for every key, the requests accepted from the start of a rate window
\* up to its resetTime number at most the key's rateLimit: the counter of the
\* window never exceeds the limit, and a call is accepted exactly when it
\* opens a window with count 1 or raises a count below the limit by one, the
\* key being active, its lastUsed set.  A rejected call changes neither the
\* counters nor lastUsed; a revoked key stays revoked and is not accepted.
C36_PerKeyRateLimit ==
  /\ [](\A k \in DOMAIN rateLimits :
          rateLimits[k] # None
            => /\ rateLimits[k].requests >= 1
               /\ rateLimits[k].requests <= apiKeys[k].rateLimit)
  /\ [][ /\ \A k \in DOMAIN rateLimits :
              /\ rateLimits'[k] # rateLimits[k]
                   => /\ authResult' = Accepted(k)
                      /\ apiKeys[k].isActive
                      /\ apiKeys'[k].lastUsed = now
                      /\ IF OpensWindow(k)
                         THEN rateLimits'[k] = RateLimit(1, now + RATE_WINDOW)
                         ELSE /\ rateLimits[k].requests < apiKeys[k].rateLimit
                              /\ rateLimits'[k] =
                                   RateLimit(rateLimits[k].requests + 1,
                                             rateLimits[k].resetTime)
              /\ apiKeys'[k].lastUsed # apiKeys[k].lastUsed
                   => rateLimits'[k] # rateLimits[k]
              /\ ~apiKeys[k].isActive
                   => /\ ~apiKeys'[k].isActive
                      /\ rateLimits'[k] = rateLimits[k]
                      /\ authResult' # authResult
                           => authResult' # Accepted(k)
         /\ (authResult' # authResult /\ ~authResult'.isAuthenticated)
              => rateLimits' = rateLimits /\ apiKeys' = apiKeys ]_vars

\* The basic key has used up its window and a further call was rejected;
\* the window is still open.
C36_Witness ==
  /\ authResult = Rejected("test_basic_key_123", "Rate limit exceeded")
  /\ rateLimits["test_basic_key_123"].requests = BASIC_RATE_LIMIT
  /\ now > 0
  /\ now <= rateLimits["test_basic_key_123"].resetTime

\* the response r comes from the rate-limited part of the middleware
RateLimited(r) ==
  IF r = None THEN FALSE
  ELSE /\ StartsWithApi(r.request.pathname)
       /\ ~StartsWithNext(r.request.pathname)
       /\ ~IncludesDot(r.request.pathname)

\* the client id has used up the quota of a window that is over
ExhaustedWindowOver(id) ==
  IF rateLimitStore[id] = None THEN FALSE
  ELSE /\ rateLimitStore[id].count >= apiRateLimit.maxRequests
       /\ now > rateLimitStore[id].resetTime

\* C37: a client that used up its quota is let through again, its count
\* starting afresh, by its first request after the resetTime of its window
\* (the instant given in X-RateLimit-Reset and Retry-After); and Retry-After
\* is never negative.
C37_WindowResetAsClaimed ==
  /\ [](IF RateLimited(response)
        THEN response.status = 429 => response.headers["Retry-After"] >= 0
        ELSE TRUE)
  /\ [][ \A id \in Clients :
           ( /\ ExhaustedWindowOver(id)
             /\ response' # response
             /\ RateLimited(response')
             /\ response'.request.identifier = id )
           => /\ response'.kind = "next"
              /\ rateLimitStore'[id].count = 1 ]_vars

\* C38: every response to an /api/ request that passed the rate limit carries
\* the CORS and the security headers, and an OPTIONS request to /api/ is
\* answered with status 200.
C38_SecurityHeadersAsClaimed ==
  IF RateLimited(response)
  THEN response.status # 429
         => /\ (CorsHeaders \cup SecurityHeaders) \subseteq DOMAIN response.headers
            /\ response.request.method = "OPTIONS"
                 => response.kind = "answer" /\ response.status = 200
  ELSE TRUE

====
